---- MODULE Spec2Model ----
(***************************************************************************)
(* Model of the EBS client of joonix/aws (ebs.go) and of the signed        *)
(* request gateway (awsClient.SignedRequest).                              *)
(*                                                                         *)
(* One client executes one operation at a time.  An operation builds a     *)
(* request, hands it to signedRequest (Version parameter, signer,          *)
(* transport) and handles the response the remote service gives.  The      *)
(* remote service is the environment: it answers every request with a      *)
(* transport failure or with a status code and a body.                     *)
(*                                                                         *)
(* Go strings that the code only passes on are TLA+ strings.  Device paths *)
(* are byte sequences, because the allocator compares and shifts bytes.    *)
(* A query parameter is a pair <<key, value>>; a key built by fmt.Sprintf  *)
(* ("Filter.%d.Name") is the tuple of its parts (<<"Filter", 1, "Name">>). *)
(***************************************************************************)
EXTENDS Integers, Sequences, FiniteSets, TLC

VARIABLES
    ebs,      \* the client: the transport, endpoint and signer it was built with
    pc,       \* "idle", "wait" (a request is in flight) or "done"
    call,     \* the operation in progress and its arguments
    sent,     \* the requests this call handed to the transport, in order
    recv,     \* the responses this call received, in order
    decoded,  \* indices into recv of the bodies passed to xml.Unmarshal
    local,    \* local variables of the operation that outlive a request
    ret,      \* the values the operation returned
    values,   \* the url.Values the caller of SignedRequest holds
    remote,   \* the volumes and snapshots of the remote service
    flags,    \* the command-line flags of the attach command
    run,      \* the number of attach invocations started
    apc,      \* where attachEbs is: "idle" before the first invocation
    vols,     \* attachEbs: the volumes the name lookup returned
    volume,   \* attachEbs: the volume pointer (shared with the volume poller)
    snapshot, \* attachEbs: the snapshot a created volume starts from
    poller,   \* the polling goroutine and its completion channel
    issued,   \* the requests of this invocation that reached the transport,
              \* in order, a run of equal requests kept once
    logged,   \* the lines this invocation wrote with package log
    stdout,   \* the lines this invocation wrote to standard output
    fatal,    \* the message the invocation died with, "" while it lives
    history,  \* exit and standard output of the invocations that ended
    callers   \* the AttachVolume calls of two callers that run side by side

\* the variables a step of a command leaves alone: those of the one client
\* call at a time; and the variables a step of that call leaves alone:
\* those of the commands.  Neither touches the calls that run side by side
cvars == <<ebs, pc, call, sent, recv, decoded, local, ret, values, callers>>
avars == <<remote, flags, run, apc, vols, volume, snapshot, poller, issued, logged,
           stdout, fatal, history, callers>>

vars == <<ebs, pc, call, sent, recv, decoded, local, ret, values, remote, flags, run, apc,
          vols, volume, snapshot, poller, issued, logged, stdout, fatal, history, callers>>

----------------------------------------------------------------------------
(* Bounds of the model *)

MaxTags == 2
MaxItems == 2
MaxMapping == 3
MaxVersions == 2

SeqsUpTo(S, n) == UNION {[1..k -> S] : k \in 0..n}

Last(s) == s[Len(s)]

----------------------------------------------------------------------------
(* Byte strings: device paths *)

DevSdPrefix == <<47, 100, 101, 118, 47, 115, 100>>   \* "/dev/sd"
DevSdf == DevSdPrefix \o <<102>>                      \* "/dev/sdf"
DevSdg == DevSdPrefix \o <<103>>                      \* "/dev/sdg"
DevSdh == DevSdPrefix \o <<104>>                      \* "/dev/sdh"
DevSde == DevSdPrefix \o <<101>>                      \* "/dev/sde"
DevSdz == DevSdPrefix \o <<122>>                      \* "/dev/sdz"
DevSda1 == DevSdPrefix \o <<97, 49>>                  \* "/dev/sda1"
DevSdf1 == DevSdPrefix \o <<102, 49>>                 \* "/dev/sdf1"
DevSdg1 == DevSdPrefix \o <<103, 49>>                 \* "/dev/sdg1"
DevXvda == <<47, 100, 101, 118, 47, 120, 118, 100, 97>> \* "/dev/xvda"
EmptyStr == <<>>                                      \* ""

\* the deviceName values the service can report
DevicePaths ==
    {EmptyStr, DevXvda, DevSdPrefix, DevSda1, DevSde, DevSdf, DevSdg, DevSdh,
     DevSdz, DevSdf1, DevSdg1}

HasPrefixAlways(s, prefix) == TRUE

\* strings.HasPrefix(s, prefix)
HasPrefix(s, prefix) ==
    /\ Len(s) >= Len(prefix)
    /\ \A i \in 1..Len(prefix) : s[i] = prefix[i]

Min(a, b) == IF a <= b THEN a ELSE b

\* Go's s >= t on strings: bytewise lexicographic order, a proper prefix is smaller
StrGE(s, t) ==
    LET n == Min(Len(s), Len(t))
        diff == {i \in 1..n : s[i] # t[i]}
    IN  IF diff = {}
        THEN Len(s) >= Len(t)
        ELSE LET k == CHOOSE i \in diff : \A j \in diff : i <= j
             IN  s[k] > t[k]

ShiftLastByteStuck(b) == b

ShiftLastByteCarrying(b) ==
    IF b[Len(b)] = 122
    THEN SubSeq(b, 1, Len(b) - 1) \o <<97, 97>>
    ELSE [b EXCEPT ![Len(b)] = (b[Len(b)] + 1) % 256]

\* string(append(b[:len(b)-1], b[len(b)-1]+1)): the last byte plus one, as a byte
ShiftLastByte(b) == [b EXCEPT ![Len(b)] = (b[Len(b)] + 1) % 256]

RECURSIVE AllocateFrom(_, _, _)
\* the loop of AttachVolume over mapping[i..], device being the running candidate
AllocateFrom(mapping, i, device) ==
    IF i > Len(mapping)
    THEN device
    ELSE LET item == mapping[i]
         IN  IF ~HasPrefix(item.Device, DevSdPrefix)
             THEN AllocateFrom(mapping, i + 1, device)
             ELSE IF StrGE(item.Device, device)
                  THEN AllocateFrom(mapping, i + 1, ShiftLastByte(item.Device))
                  ELSE AllocateFrom(mapping, i + 1, device)

AllocateDeviceFirstFree(mapping) ==
    LET used == {mapping[i].Device : i \in 1..Len(mapping)}
        free == {c \in 102..123 : DevSdPrefix \o <<c>> \notin used}
    IN  DevSdPrefix \o <<CHOOSE c \in free : \A d \in free : c <= d>>

\* the device path AttachVolume computes for a block-device mapping
AllocateDevice(mapping) == AllocateFrom(mapping, 1, DevSdf)

----------------------------------------------------------------------------
(* Requests: url.Values and signedRequest *)

\* NewEbsClient, and NewSignedRequester alike: an empty endpoint and a nil
\* transport or signer are replaced by the defaults
NewEbsClient(client, endpoint, signer) ==
    [client |-> IF client = "nil" THEN "http.DefaultClient" ELSE client,
     endpoint |-> IF endpoint = "" THEN "https://ec2.amazonaws.com" ELSE endpoint,
     signer |-> IF signer = "nil" THEN "defaultSigner" ELSE signer]

\* the client of the commands: the transport with the bundled certificates,
\* the endpoint flag left empty, no signer given
CommandClient == NewEbsClient("sslClient", "", "nil")

\* the clients that can be constructed
Clients ==
    {CommandClient, NewEbsClient("testClient", "http://127.0.0.1:8080", "testSigner")}

ReceiverRedirected == ebs' = [ebs EXCEPT !.endpoint = "https://ec2.amazonaws.com"]

\* the methods have a pointer receiver, read its fields and assign none
ReadOnlyReceiver == ebs' = ebs

\* http.NewRequest("GET", ebs.endpoint, nil) followed by req.URL.Query()
\* signed counts the calls of the signer on the request; seen is the
\* parameter set the request carried when the signer last saw it; signer
\* and via are the signer that saw it and the transport it went out by
NewRequest ==
    [params |-> <<>>, signed |-> 0, seen |-> <<>>, endpoint |-> ebs.endpoint,
     signer |-> "", via |-> ""]

\* url.Values.Add(key, value)
Add(params, key, value) == Append(params, <<key, value>>)

\* the number of values a parameter set carries for a key
Count(params, key) == Cardinality({i \in 1..Len(params) : params[i][1] = key})

Has(params, key) == Count(params, key) > 0

\* url.Values.Get(key): the first value of the key
Get(params, key) ==
    params[CHOOSE i \in 1..Len(params) :
              /\ params[i][1] = key
              /\ \A j \in 1..(i - 1) : params[j][1] # key][2]

Keys(params) == {params[i][1] : i \in 1..Len(params)}

ProtocolVersion == "2014-05-01"

\* RequestSigner.Sign(req), as the clients call it
Sign(req) == [req EXCEPT !.signed = @ + 1, !.seen = req.params, !.signer = ebs.signer]

\* http.Client.Do(req) of the transport of the client
Do(req) == [req EXCEPT !.via = ebs.client]

signedRequestVersionLast(req) ==
    [Sign(req) EXCEPT !.params = Add(@, <<"Version">>, ProtocolVersion)]

\* EbsClient.signedRequest up to the dispatch: the Version parameter is
\* added, the signer is invoked once, the request goes to the transport
signedRequest(req) ==
    Do(Sign([req EXCEPT !.params = Add(@, <<"Version">>, ProtocolVersion)]))

RECURSIVE Itoa(_)
\* strconv.Itoa for n >= 0: the decimal digits of n
Itoa(n) == IF n < 10 THEN <<n>> ELSE Itoa(n \div 10) \o <<n % 10>>

RECURSIVE Atoi(_)
\* the number a digit string denotes (what the service reads back)
Atoi(d) == IF Len(d) = 0 THEN 0 ELSE 10 * Atoi(SubSeq(d, 1, Len(d) - 1)) + Last(d)

----------------------------------------------------------------------------
(* Responses: what the remote service can answer *)

VolumeIds == {"vol-1", "vol-2"}
SnapshotIds == {"snap-1"}
InstanceIds == {"i-1"}
Zones == {"eu-west-1a"}

\* a document without any of the elements the codec looks for
EmptyDoc ==
    [volumeId |-> "", availabilityZone |-> "", status |-> "", snapshotId |-> "",
     instanceId |-> "", device |-> EmptyStr, description |-> "",
     attachmentSet |-> <<>>,
     volumeSet |-> <<>>, snapshotSet |-> <<>>, blockDeviceMapping |-> <<>>]

\* a body: its bytes (raw), whether they are well-formed XML, and the
\* elements a decoder finds in them
XmlBody(raw, doc) == [raw |-> raw, wf |-> TRUE, doc |-> doc]

MalformedBody == [raw |-> "<unclosed", wf |-> FALSE, doc |-> EmptyDoc]

ErrorBodies ==
    {XmlBody("AuthFailure", EmptyDoc), XmlBody("InvalidParameterValue", EmptyDoc)}

VolumeElems ==
    {[volumeId |-> id, availabilityZone |-> az, status |-> st, attachmentSet |-> <<>>] :
        id \in VolumeIds, az \in Zones, st \in {"creating", "available"}}

SnapshotElems ==
    {[snapshotId |-> id, volumeId |-> "vol-1", status |-> st, description |-> "migrate_zone"] :
        id \in SnapshotIds, st \in {"pending", "completed"}}

MappingElems == {[deviceName |-> d] : d \in DevicePaths}

DescribeVolumesBodies ==
    {XmlBody("DescribeVolumesResponse", [EmptyDoc EXCEPT !.volumeSet = s]) :
        s \in SeqsUpTo(VolumeElems, MaxItems)}

DescribeSnapshotsBodies ==
    {XmlBody("DescribeSnapshotsResponse", [EmptyDoc EXCEPT !.snapshotSet = s]) :
        s \in SeqsUpTo(SnapshotElems, MaxItems)}

CreateVolumeBodies ==
    {XmlBody("CreateVolumeResponse",
             [EmptyDoc EXCEPT !.volumeId = id, !.availabilityZone = az,
                              !.status = "creating"]) :
        id \in VolumeIds, az \in Zones}

CreateSnapshotBodies ==
    {XmlBody("CreateSnapshotResponse",
             [EmptyDoc EXCEPT !.snapshotId = id, !.volumeId = v,
                              !.status = "pending", !.description = "migrate_zone"]) :
        id \in SnapshotIds, v \in VolumeIds}

AttachmentBodies(raw, statuses) ==
    {XmlBody(raw, [EmptyDoc EXCEPT !.volumeId = v, !.instanceId = i, !.status = st]) :
        v \in VolumeIds, i \in InstanceIds, st \in statuses}

DescribeInstanceAttributeBodies ==
    {XmlBody("DescribeInstanceAttributeResponse",
             [EmptyDoc EXCEPT !.instanceId = "i-1", !.blockDeviceMapping = m]) :
        m \in SeqsUpTo(MappingElems, MaxMapping)}

ReturnTrueBody(raw) == XmlBody(raw, EmptyDoc)

\* the bodies the service sends with status 200 for an action
OkBodies(action) ==
    CASE action = "DescribeVolumes" -> DescribeVolumesBodies
      [] action = "DescribeSnapshots" -> DescribeSnapshotsBodies
      [] action = "CreateVolume" -> CreateVolumeBodies
      [] action = "CreateSnapshot" -> CreateSnapshotBodies
      [] action = "DescribeInstanceAttribute" -> DescribeInstanceAttributeBodies
      [] action = "AttachVolume" -> AttachmentBodies("AttachVolumeResponse", {"attaching"})
      [] action = "DetachVolume" ->
            AttachmentBodies("DetachVolumeResponse", {"detaching", "detached"})
      [] OTHER -> {ReturnTrueBody(action)}

TransportFailure == [kind |-> "failure", status |-> 0, body |-> MalformedBody]

Http(status, body) == [kind |-> "http", status |-> status, body |-> body]

\* status codes of the service: 200, another 2xx code, a client error
StatusCodes == {200, 204, 400}

\* a status code in the 2xx range
IsSuccess(status) == status \in 200..299

\* a body of the action that carries an entity
SampleBody(action) ==
    CASE action = "DescribeVolumes" ->
            XmlBody("DescribeVolumesResponse",
                    [EmptyDoc EXCEPT !.volumeSet =
                        <<[volumeId |-> "vol-1", availabilityZone |-> "eu-west-1a",
                           status |-> "available", attachmentSet |-> <<>>]>>])
      [] action = "DescribeSnapshots" ->
            XmlBody("DescribeSnapshotsResponse",
                    [EmptyDoc EXCEPT !.snapshotSet =
                        <<[snapshotId |-> "snap-1", volumeId |-> "vol-1",
                           status |-> "completed", description |-> "migrate_zone"]>>])
      [] action = "DescribeInstanceAttribute" ->
            XmlBody("DescribeInstanceAttributeResponse",
                    [EmptyDoc EXCEPT !.instanceId = "i-1",
                                     !.blockDeviceMapping = <<[deviceName |-> DevSdf]>>])
      [] OTHER -> CHOOSE b \in OkBodies(action) : TRUE

\* everything the environment can answer to a request with this action
Responses(action) ==
    {TransportFailure}
    \cup {Http(200, b) : b \in OkBodies(action) \cup {MalformedBody} \cup ErrorBodies}
    \cup {Http(s, b) : s \in StatusCodes \ {200},
                       b \in ErrorBodies \cup {SampleBody(action)}}

----------------------------------------------------------------------------
(* The codec: xml.Unmarshal into the entity types *)

\* the Device of an attachment record, which attachEbs prints: the device
\* element of the item (the record type of ebs.go has no such field)
AttachmentDevice(elem) == elem.device

\* xml.Unmarshal into EbsVolumeAttachementResponse
UnmarshalAttachment(elem) ==
    [InstanceId |-> elem.instanceId, VolumeId |-> elem.volumeId, Status |-> elem.status,
     Device |-> AttachmentDevice(elem)]

\* xml.Unmarshal into EbsVolume, from a response or from an item of a set
UnmarshalVolume(elem) ==
    [Id |-> elem.volumeId, AvailabilityZone |-> elem.availabilityZone,
     Status |-> elem.status,
     AttachmentSet |-> [i \in 1..Len(elem.attachmentSet) |->
                           UnmarshalAttachment(elem.attachmentSet[i])]]

\* xml.Unmarshal into EbsVolumeSet
UnmarshalVolumeSet(doc) ==
    [i \in 1..Len(doc.volumeSet) |-> UnmarshalVolume(doc.volumeSet[i])]

\* xml.Unmarshal into EbsSnapshot
UnmarshalSnapshot(elem) ==
    [Id |-> elem.snapshotId, VolumeId |-> elem.volumeId, Status |-> elem.status,
     Description |-> elem.description]

\* xml.Unmarshal into EbsSnapshotSet
UnmarshalSnapshotSet(doc) ==
    [i \in 1..Len(doc.snapshotSet) |-> UnmarshalSnapshot(doc.snapshotSet[i])]

\* xml.Unmarshal into the block-device mapping of getBlockDeviceMapping
UnmarshalMapping(doc) ==
    [i \in 1..Len(doc.blockDeviceMapping) |->
        [Device |-> doc.blockDeviceMapping[i].deviceName]]

----------------------------------------------------------------------------
(* The state of a call *)

NoCall ==
    [op |-> "", id |-> "", instance |-> "", tags |-> <<>>, size |-> 0, piops |-> 0,
     ssd |-> FALSE, az |-> "", snapshot |-> "", description |-> ""]

\* a nil pointer is <<>>, a pointer to x is <<x>>
NoLocal == [vol |-> <<>>, mapping |-> <<>>, device |-> EmptyStr]

NilErr == [nil |-> TRUE, msg |-> ""]

\* errors.New(msg)
Error(msg) == [nil |-> FALSE, msg |-> msg]

\* the error of http.Client.Do
TransportError == Error("transport failure")

\* the error of xml.Unmarshal
DecodeError == Error("XML syntax error")

\* the zero values of everything an operation can return
NoRet ==
    [vols |-> <<>>, vol |-> <<>>, snap |-> <<>>, device |-> EmptyStr, status |-> "",
     body |-> <<>>, err |-> NilErr]

TagItems == [Key : {"Name", "Stack"}, Value : {"test"}]
TagLists == SeqsUpTo(TagItems, MaxTags)
Sizes == {1}
Piops == {0, 1000}
Snapshots == {""} \cup SnapshotIds

\* the action of the request in flight
InFlight == Get(Last(sent).params, <<"Action">>)

StatusOKAlways(status) == TRUE

\* the test res.StatusCode != 200, negated
StatusOK(status) == status = 200

\* an operation starts: client state there is none, the logs of the call are fresh
Begin(c) ==
    /\ pc = "idle"
    /\ call' = c
    /\ recv' = <<>>
    /\ decoded' = {}
    /\ local' = NoLocal

\* the operation hands its first request to signedRequest
Dispatch(req) ==
    /\ sent' = <<signedRequest(req)>>
    /\ pc' = "wait"
    /\ ret' = NoRet

\* operation op has the request of this action in flight
Awaits(op, action) ==
    /\ pc = "wait"
    /\ call.op = op
    /\ InFlight = action

\* the response r arrives
Received(r) == recv' = Append(recv, r)

\* the operation returns r
Return(r) ==
    /\ pc' = "done"
    /\ ret' = r

\* the common head of every response handler: the error of the transport,
\* then the body as the error of a status other than 200
Failed(r) == r.kind = "failure" \/ ~StatusOK(r.status)

FailureOf(r) == IF r.kind = "failure" THEN TransportError ELSE Error(r.body.raw)

\* the bodies passed to xml.Unmarshal once the response r was handled
Unmarshalled(r) == IF Failed(r) THEN decoded ELSE decoded \cup {Len(recv) + 1}

----------------------------------------------------------------------------
(* VolumesByTags *)

RECURSIVE TagFiltersFromZero(_, _, _)
TagFiltersFromZero(params, tags, n) ==
    IF n > Len(tags)
    THEN params
    ELSE TagFiltersFromZero(
             Add(Add(params, <<"Filter", n - 1, "Name">>, <<"tag:", tags[n].Key>>),
                 <<"Filter", n - 1, "Value">>, tags[n].Value),
             tags, n + 1)

RECURSIVE TagFiltersFrom(_, _, _)
\* the loop of VolumesByTags over tags[n..]
TagFiltersFrom(params, tags, n) ==
    IF n > Len(tags)
    THEN params
    ELSE TagFiltersFrom(
             Add(Add(params, <<"Filter", n, "Name">>, <<"tag:", tags[n].Key>>),
                 <<"Filter", n, "Value">>, tags[n].Value),
             tags, n + 1)

VolumesByTagsRequest(tags) ==
    [NewRequest EXCEPT
        !.params = TagFiltersFrom(Add(@, <<"Action">>, "DescribeVolumes"), tags, 1)]

VolumesByTagsCall ==
    \E tags \in TagLists :
        /\ Begin([NoCall EXCEPT !.op = "VolumesByTags", !.tags = tags])
        /\ Dispatch(VolumesByTagsRequest(tags))
        /\ UNCHANGED <<values, avars>>
        /\ ReadOnlyReceiver

\* what VolumesByTags returns on the response r
VolumesByTagsReturn(r) ==
    IF Failed(r)
    THEN [NoRet EXCEPT !.err = FailureOf(r)]
    ELSE IF ~r.body.wf
         THEN [NoRet EXCEPT !.err = DecodeError]
         ELSE [NoRet EXCEPT !.vols = UnmarshalVolumeSet(r.body.doc)]

VolumesByTagsResponse ==
    /\ Awaits("VolumesByTags", "DescribeVolumes")
    /\ \E r \in Responses("DescribeVolumes") :
        /\ Received(r)
        /\ decoded' = Unmarshalled(r)
        /\ Return(VolumesByTagsReturn(r))
        /\ UNCHANGED <<call, sent, local, values, avars>>
        /\ ReadOnlyReceiver

----------------------------------------------------------------------------
(* VolumeById and SnapshotById *)

ExactlyOneOrMore(items) == Len(items) >= 1

\* the test len(Items) != 1, negated
ExactlyOne(items) == Len(items) = 1

VolumeByIdRequest(id) ==
    [NewRequest EXCEPT
        !.params = Add(Add(@, <<"Action">>, "DescribeVolumes"), <<"VolumeId", 1>>, id)]

VolumeByIdCall ==
    \E id \in VolumeIds :
        /\ Begin([NoCall EXCEPT !.op = "VolumeById", !.id = id])
        /\ Dispatch(VolumeByIdRequest(id))
        /\ UNCHANGED <<values, avars>>
        /\ ReadOnlyReceiver

\* what VolumeById returns on the response r
VolumeByIdReturn(r) ==
    IF Failed(r)
    THEN [NoRet EXCEPT !.err = FailureOf(r)]
    ELSE IF ~r.body.wf
         THEN [NoRet EXCEPT !.err = DecodeError]
         ELSE LET set == UnmarshalVolumeSet(r.body.doc)
              IN  IF ~ExactlyOne(set)
                  THEN [NoRet EXCEPT !.err = Error("Could not find the specified volume")]
                  ELSE [NoRet EXCEPT !.vol = <<set[1]>>]

VolumeByIdResponse ==
    /\ Awaits("VolumeById", "DescribeVolumes")
    /\ \E r \in Responses("DescribeVolumes") :
        /\ Received(r)
        /\ decoded' = Unmarshalled(r)
        /\ Return(VolumeByIdReturn(r))
        /\ UNCHANGED <<call, sent, local, values, avars>>
        /\ ReadOnlyReceiver

SnapshotByIdRequest(id) ==
    [NewRequest EXCEPT
        !.params = Add(Add(@, <<"Action">>, "DescribeSnapshots"), <<"SnapshotId", 1>>, id)]

SnapshotByIdCall ==
    \E id \in SnapshotIds :
        /\ Begin([NoCall EXCEPT !.op = "SnapshotById", !.id = id])
        /\ Dispatch(SnapshotByIdRequest(id))
        /\ UNCHANGED <<values, avars>>
        /\ ReadOnlyReceiver

\* what SnapshotById returns on the response r
SnapshotByIdReturn(r) ==
    IF Failed(r)
    THEN [NoRet EXCEPT !.err = FailureOf(r)]
    ELSE IF ~r.body.wf
         THEN [NoRet EXCEPT !.err = DecodeError]
         ELSE LET snapset == UnmarshalSnapshotSet(r.body.doc)
              IN  IF ~ExactlyOne(snapset)
                  THEN [NoRet EXCEPT !.err = Error("Could not find the specified snapshot")]
                  ELSE [NoRet EXCEPT !.snap = <<snapset[1]>>]

SnapshotByIdResponse ==
    /\ Awaits("SnapshotById", "DescribeSnapshots")
    /\ \E r \in Responses("DescribeSnapshots") :
        /\ Received(r)
        /\ decoded' = Unmarshalled(r)
        /\ Return(SnapshotByIdReturn(r))
        /\ UNCHANGED <<call, sent, local, values, avars>>
        /\ ReadOnlyReceiver

----------------------------------------------------------------------------
(* CreateVolume and tagResource *)

PiopsWithoutSsdAllowed(piops, ssd) == FALSE

\* the validation of CreateVolume: provisioned IOPS asked for a volume that is not SSD
PiopsWithoutSsd(piops, ssd) == piops > 0 /\ ~ssd

VolumeTypeIgnoringSsd(params, piops, ssd) ==
    IF piops > 0
    THEN Add(Add(params, <<"VolumeType">>, "io1"), <<"Iops">>, Itoa(piops))
    ELSE Add(params, <<"VolumeType">>, "standard")

\* the VolumeType and Iops parameters of a CreateVolume request that passed validation
VolumeType(params, piops, ssd) ==
    IF piops > 0
    THEN Add(Add(params, <<"VolumeType">>, "io1"), <<"Iops">>, Itoa(piops))
    ELSE IF ssd
         THEN Add(params, <<"VolumeType">>, "gp2")
         ELSE Add(params, <<"VolumeType">>, "standard")

CreateVolumeRequest(size, piops, ssd, az, snapshotId) ==
    LET head == Add(Add(Add(<<>>, <<"Action">>, "CreateVolume"),
                        <<"Size">>, Itoa(size)),
                    <<"AvailabilityZone">>, az)
        snap == IF snapshotId # ""
                THEN Add(head, <<"SnapshotId">>, snapshotId)
                ELSE head
    IN  [NewRequest EXCEPT !.params = VolumeType(snap, piops, ssd)]

CreateVolumeCall ==
    \E size \in Sizes, piops \in Piops, ssd \in BOOLEAN, az \in Zones,
       snapshotId \in Snapshots, tags \in TagLists :
        /\ Begin([NoCall EXCEPT !.op = "CreateVolume", !.size = size, !.piops = piops,
                                !.ssd = ssd, !.az = az, !.snapshot = snapshotId,
                                !.tags = tags])
        /\ IF PiopsWithoutSsd(piops, ssd)
           THEN /\ sent' = <<>>
                /\ Return([NoRet EXCEPT
                      !.err = Error("Provisioned IOPS volumes are only available as SSD")])
           ELSE Dispatch(CreateVolumeRequest(size, piops, ssd, az, snapshotId))
        /\ UNCHANGED <<values, avars>>
        /\ ReadOnlyReceiver

RECURSIVE TagParamsFrom(_, _, _)
\* the loop of tagResource over tags[n..]
TagParamsFrom(params, tags, n) ==
    IF n > Len(tags)
    THEN params
    ELSE TagParamsFrom(
             Add(Add(params, <<"Tag", n, "Key">>, tags[n].Key),
                 <<"Tag", n, "Value">>, tags[n].Value),
             tags, n + 1)

tagResourceRequest(id, tags) ==
    [NewRequest EXCEPT
        !.params = TagParamsFrom(Add(Add(@, <<"Action">>, "CreateTags"),
                                     <<"ResourceId", 1>>, id),
                                 tags, 1)]

TagsWantedNever(tags) == FALSE

\* the test len(tags) > 0 of CreateVolume
TagsWanted(tags) == Len(tags) > 0

\* CreateVolume on the response r to its CreateVolume request: the error it
\* returns, or the volume it decoded
CreateVolumeDecoded(r) ==
    IF Failed(r)
    THEN [NoRet EXCEPT !.err = FailureOf(r)]
    ELSE IF ~r.body.wf
         THEN [NoRet EXCEPT !.err = DecodeError]
         ELSE [NoRet EXCEPT !.vol = <<UnmarshalVolume(r.body.doc)>>]

\* CreateVolume from the response to its CreateVolume request on
CreateVolumeResponse ==
    /\ Awaits("CreateVolume", "CreateVolume")
    /\ \E r \in Responses("CreateVolume") :
        /\ Received(r)
        /\ decoded' = Unmarshalled(r)
        /\ LET res == CreateVolumeDecoded(r)
           IN  IF ~res.err.nil
               THEN /\ Return(res)
                    /\ UNCHANGED <<local, sent>>
               ELSE /\ local' = [local EXCEPT !.vol = res.vol]
                    /\ IF TagsWanted(call.tags)
                       THEN /\ sent' = Append(sent,
                                  signedRequest(tagResourceRequest(res.vol[1].Id, call.tags)))
                            /\ UNCHANGED <<pc, ret>>
                       ELSE /\ Return(res)
                            /\ UNCHANGED sent
        /\ UNCHANGED <<call, values, avars>>
        /\ ReadOnlyReceiver

tagResourceFailureHidden(r) == FALSE

\* tagResource reports an error
tagResourceFailed(r) == Failed(r)

\* tagResource from the response on, and the return of CreateVolume
\* what CreateVolume returns for the volume vol on the response r to CreateTags
tagResourceReturn(vol, r) ==
    IF tagResourceFailed(r)
    THEN [NoRet EXCEPT !.err = FailureOf(r)]
    ELSE [NoRet EXCEPT !.vol = vol]

tagResourceResponse ==
    /\ Awaits("CreateVolume", "CreateTags")
    /\ \E r \in Responses("CreateTags") :
        /\ Received(r)
        /\ Return(tagResourceReturn(local.vol, r))
        /\ UNCHANGED <<call, sent, decoded, local, values, avars>>
        /\ ReadOnlyReceiver

----------------------------------------------------------------------------
(* DeleteVolume and DeleteSnapshot *)

DeleteVolumeRequest(id) ==
    [NewRequest EXCEPT
        !.params = Add(Add(@, <<"Action">>, "DeleteVolume"), <<"VolumeId">>, id)]

DeleteVolumeCall ==
    \E id \in VolumeIds :
        /\ Begin([NoCall EXCEPT !.op = "DeleteVolume", !.id = id])
        /\ Dispatch(DeleteVolumeRequest(id))
        /\ UNCHANGED <<values, avars>>
        /\ ReadOnlyReceiver

\* what DeleteVolume returns on the response r
DeleteVolumeReturn(r) ==
    IF Failed(r) THEN [NoRet EXCEPT !.err = FailureOf(r)] ELSE NoRet

DeleteVolumeResponseRetrying ==
    /\ Awaits("DeleteVolume", "DeleteVolume")
    /\ \E r \in Responses("DeleteVolume") :
        /\ Received(r)
        /\ IF Failed(r)
           THEN IF Len(sent) < 2
                THEN /\ sent' = Append(sent, Last(sent))
                     /\ UNCHANGED <<pc, ret>>
                ELSE /\ Return([NoRet EXCEPT !.err = FailureOf(r)])
                     /\ UNCHANGED sent
           ELSE /\ Return(NoRet)
                /\ UNCHANGED sent
        /\ UNCHANGED <<call, decoded, local, values, avars>>
        /\ ReadOnlyReceiver

\* DeleteVolume from the response on
DeleteVolumeResponse ==
    /\ Awaits("DeleteVolume", "DeleteVolume")
    /\ \E r \in Responses("DeleteVolume") :
        /\ Received(r)
        /\ Return(DeleteVolumeReturn(r))
        /\ UNCHANGED <<call, sent, decoded, local, values, avars>>
        /\ ReadOnlyReceiver

DeleteSnapshotRequest(id) ==
    [NewRequest EXCEPT
        !.params = Add(Add(@, <<"Action">>, "DeleteSnapshot"), <<"SnapshotId">>, id)]

DeleteSnapshotCall ==
    \E id \in SnapshotIds :
        /\ Begin([NoCall EXCEPT !.op = "DeleteSnapshot", !.id = id])
        /\ Dispatch(DeleteSnapshotRequest(id))
        /\ UNCHANGED <<values, avars>>
        /\ ReadOnlyReceiver

DeleteSnapshotResponse ==
    /\ Awaits("DeleteSnapshot", "DeleteSnapshot")
    /\ \E r \in Responses("DeleteSnapshot") :
        /\ Received(r)
        /\ IF Failed(r)
           THEN Return([NoRet EXCEPT !.err = FailureOf(r)])
           ELSE Return(NoRet)
        /\ UNCHANGED <<call, sent, decoded, local, values, avars>>
        /\ ReadOnlyReceiver

----------------------------------------------------------------------------
(* AttachVolume and getBlockDeviceMapping *)

getBlockDeviceMappingRequest(instance) ==
    [NewRequest EXCEPT
        !.params = Add(Add(Add(@, <<"Action">>, "DescribeInstanceAttribute"),
                           <<"InstanceId">>, instance),
                       <<"Attribute">>, "blockDeviceMapping")]

AttachVolumeRequestFirstDevice(id, instance, device) ==
    [NewRequest EXCEPT
        !.params = Add(Add(Add(Add(@, <<"Action">>, "AttachVolume"),
                               <<"InstanceId">>, instance),
                           <<"VolumeId">>, id),
                       <<"Device">>, DevSdf)]

AttachVolumeRequest(id, instance, device) ==
    [NewRequest EXCEPT
        !.params = Add(Add(Add(Add(@, <<"Action">>, "AttachVolume"),
                               <<"InstanceId">>, instance),
                           <<"VolumeId">>, id),
                       <<"Device">>, device)]

\* AttachVolume up to the request of getBlockDeviceMapping
AttachVolumeCall ==
    \E id \in VolumeIds, instance \in InstanceIds :
        /\ Begin([NoCall EXCEPT !.op = "AttachVolume", !.id = id, !.instance = instance])
        /\ Dispatch(getBlockDeviceMappingRequest(instance))
        /\ UNCHANGED <<values, avars>>
        /\ ReadOnlyReceiver

getBlockDeviceMappingReturnNoMapping(r) ==
    IF Failed(r) \/ ~r.body.wf
    THEN [mapping |-> <<>>, err |-> NilErr]
    ELSE [mapping |-> UnmarshalMapping(r.body.doc), err |-> NilErr]

\* getBlockDeviceMapping on the response r: its error, or the mapping
getBlockDeviceMappingReturn(r) ==
    IF Failed(r)
    THEN [mapping |-> <<>>, err |-> FailureOf(r)]
    ELSE IF ~r.body.wf
         THEN [mapping |-> <<>>, err |-> DecodeError]
         ELSE [mapping |-> UnmarshalMapping(r.body.doc), err |-> NilErr]

\* getBlockDeviceMapping from its response on, then AttachVolume up to its
\* own request: the device path is computed and sent
getBlockDeviceMappingResponse ==
    /\ Awaits("AttachVolume", "DescribeInstanceAttribute")
    /\ \E r \in Responses("DescribeInstanceAttribute") :
        /\ Received(r)
        /\ decoded' = Unmarshalled(r)
        /\ LET res == getBlockDeviceMappingReturn(r)
               device == AllocateDevice(res.mapping)
           IN  IF ~res.err.nil
               THEN /\ Return([NoRet EXCEPT !.err = res.err])
                    /\ UNCHANGED <<local, sent>>
               ELSE /\ local' = [local EXCEPT !.mapping = res.mapping,
                                              !.device = device]
                    /\ sent' = Append(sent,
                          signedRequest(AttachVolumeRequest(call.id, call.instance,
                                                            device)))
                    /\ UNCHANGED <<pc, ret>>
        /\ UNCHANGED <<call, values, avars>>
        /\ ReadOnlyReceiver

\* what AttachVolume returns on the response r to its AttachVolume request;
\* device is a named result and keeps the computed path on every return
AttachVolumeReturn(device, r) ==
    IF Failed(r)
    THEN [NoRet EXCEPT !.device = device, !.err = FailureOf(r)]
    ELSE [NoRet EXCEPT !.device = device]

AttachVolumeResponse ==
    /\ Awaits("AttachVolume", "AttachVolume")
    /\ \E r \in Responses("AttachVolume") :
        /\ Received(r)
        /\ Return(AttachVolumeReturn(local.device, r))
        /\ UNCHANGED <<call, sent, decoded, local, values, avars>>
        /\ ReadOnlyReceiver

----------------------------------------------------------------------------
(* DetachVolume and CreateSnapshot *)

DetachVolumeRequest(id) ==
    [NewRequest EXCEPT
        !.params = Add(Add(@, <<"Action">>, "DetachVolume"), <<"VolumeId">>, id)]

DetachVolumeCall ==
    \E id \in VolumeIds :
        /\ Begin([NoCall EXCEPT !.op = "DetachVolume", !.id = id])
        /\ Dispatch(DetachVolumeRequest(id))
        /\ UNCHANGED <<values, avars>>
        /\ ReadOnlyReceiver

DetachVolumeResponseAwaitingDetached ==
    /\ Awaits("DetachVolume", "DetachVolume")
    /\ \E r \in Responses("DetachVolume") :
        /\ Received(r)
        /\ IF Failed(r)
           THEN /\ Return([NoRet EXCEPT !.err = FailureOf(r)])
                /\ UNCHANGED <<decoded, sent>>
           ELSE /\ decoded' = decoded \cup {Len(recv) + 1}
                /\ IF ~r.body.wf
                   THEN /\ Return([NoRet EXCEPT !.err = DecodeError])
                        /\ UNCHANGED sent
                   ELSE IF r.body.doc.status = "detaching" /\ Len(sent) < 2
                   THEN /\ sent' = Append(sent, Last(sent))
                        /\ UNCHANGED <<pc, ret>>
                   ELSE /\ Return([NoRet EXCEPT
                               !.status = UnmarshalAttachment(r.body.doc).Status])
                        /\ UNCHANGED sent
        /\ UNCHANGED <<call, local, values, avars>>
        /\ ReadOnlyReceiver

\* what DetachVolume returns on the response r; on a body that does not
\* decode, volres keeps its zero value here
DetachVolumeReturn(r) ==
    IF Failed(r)
    THEN [NoRet EXCEPT !.err = FailureOf(r)]
    ELSE IF ~r.body.wf
         THEN [NoRet EXCEPT !.err = DecodeError]
         ELSE [NoRet EXCEPT !.status = UnmarshalAttachment(r.body.doc).Status]

\* on a body that does not decode, volres keeps its zero value here
DetachVolumeResponse ==
    /\ Awaits("DetachVolume", "DetachVolume")
    /\ \E r \in Responses("DetachVolume") :
        /\ Received(r)
        /\ IF Failed(r)
           THEN /\ Return([NoRet EXCEPT !.err = FailureOf(r)])
                /\ UNCHANGED decoded
           ELSE /\ decoded' = decoded \cup {Len(recv) + 1}
                /\ IF ~r.body.wf
                   THEN Return([NoRet EXCEPT !.err = DecodeError])
                   ELSE Return([NoRet EXCEPT
                            !.status = UnmarshalAttachment(r.body.doc).Status])
        /\ UNCHANGED <<call, sent, local, values, avars>>
        /\ ReadOnlyReceiver

CreateSnapshotRequest(volumeId, description) ==
    [NewRequest EXCEPT
        !.params = Add(Add(Add(@, <<"Action">>, "CreateSnapshot"),
                           <<"Description">>, description),
                       <<"VolumeId">>, volumeId)]

CreateSnapshotCall ==
    \E volumeId \in VolumeIds, description \in {"migrate_zone"} :
        /\ Begin([NoCall EXCEPT !.op = "CreateSnapshot", !.id = volumeId,
                                !.description = description])
        /\ Dispatch(CreateSnapshotRequest(volumeId, description))
        /\ UNCHANGED <<values, avars>>
        /\ ReadOnlyReceiver

\* what CreateSnapshot returns on the response r
CreateSnapshotReturn(r) ==
    IF Failed(r)
    THEN [NoRet EXCEPT !.err = FailureOf(r)]
    ELSE IF ~r.body.wf
         THEN [NoRet EXCEPT !.err = DecodeError]
         ELSE [NoRet EXCEPT !.snap = <<UnmarshalSnapshot(r.body.doc)>>]

CreateSnapshotResponse ==
    /\ Awaits("CreateSnapshot", "CreateSnapshot")
    /\ \E r \in Responses("CreateSnapshot") :
        /\ Received(r)
        /\ decoded' = Unmarshalled(r)
        /\ Return(CreateSnapshotReturn(r))
        /\ UNCHANGED <<call, sent, local, values, avars>>
        /\ ReadOnlyReceiver

----------------------------------------------------------------------------
(* awsClient.SignedRequest: the gateway *)

\* the parameter sets a caller builds for the gateway
CallerValues ==
    {Add(<<>>, <<"Action">>, a) : a \in {"DescribeVolumes", "DescribeAddresses"}}

\* SignedRequest up to the dispatch.  v is a map the caller holds: a new one,
\* or the one it passed to the call that just returned; v.Add changes the
\* caller's map
SignedRequestCall ==
    \E v \in CallerValues \cup {values} :
        /\ \/ pc = "idle" /\ v \in CallerValues
           \/ pc = "done" /\ call.op = "SignedRequest"
        /\ Count(v, <<"Version">>) < MaxVersions
        /\ call' = [NoCall EXCEPT !.op = "SignedRequest"]
        /\ recv' = <<>>
        /\ decoded' = {}
        /\ local' = NoLocal
        /\ values' = Add(v, <<"Version">>, ProtocolVersion)
        /\ sent' = <<Do(Sign([NewRequest EXCEPT !.params = values']))>>
        /\ pc' = "wait"
        /\ ret' = NoRet
        /\ UNCHANGED avars
        /\ ReadOnlyReceiver

SignedRequestResponse ==
    /\ Awaits("SignedRequest", InFlight)
    /\ \E r \in Responses(InFlight) :
           /\ Received(r)
           /\ IF Failed(r)
              THEN Return([NoRet EXCEPT !.err = FailureOf(r)])
              ELSE Return([NoRet EXCEPT !.body = <<r.body>>])
    /\ UNCHANGED <<call, sent, decoded, local, values, avars>>
    /\ ReadOnlyReceiver

----------------------------------------------------------------------------
(* The client *)

\* the caller has taken the result: neither client keeps anything of a call
\* (EbsClient and awsClient hold only transport, endpoint and signer)
EndCall ==
    /\ pc = "done"
    /\ pc' = "idle"
    /\ call' = NoCall
    /\ sent' = <<>>
    /\ recv' = <<>>
    /\ decoded' = {}
    /\ local' = NoLocal
    /\ ret' = NoRet
    /\ values' = <<>>
    /\ UNCHANGED <<ebs, avars>>

\* a service without volumes and snapshots
NoVolume == [state |-> "absent", az |-> "", name |-> "", att |-> <<>>]
NoRemote ==
    [volumes |-> [id \in VolumeIds |-> NoVolume],
     snapshots |-> [id \in {"snap-1", "snap-2"} |-> "absent"]]

NoFlags ==
    [name |-> "", size |-> 0, ssd |-> FALSE, piops |-> 0, snapshot |-> "",
     instance |-> "", az |-> ""]

\* no goroutine polls; wait is the state of its completion channel
NoPoller == [state |-> "none", polls |-> 0, last |-> "", wait |-> "none", asked |-> {},
     late |-> FALSE, raced |-> FALSE]

\* the local state of attachEbs before it runs
NoLocals ==
    /\ vols = <<>>
    /\ volume = <<>>
    /\ snapshot = ""
    /\ poller = [snapshot |-> NoPoller, volume |-> NoPoller]
    /\ issued = <<>>
    /\ logged = <<>>
    /\ stdout = <<>>
    /\ fatal = ""

\* the attach command is not in use
NoCommand ==
    /\ remote = NoRemote
    /\ flags = NoFlags
    /\ run = 0
    /\ apc = "idle"
    /\ history = <<>>
    /\ NoLocals

\* two callers of AttachVolume, each with a volume of its own
Callers == {"first", "second"}

CallerVolume(c) == IF c = "first" THEN "vol-1" ELSE "vol-2"

\* neither has called yet
NoCallers ==
    [c \in Callers |->
        [pc |-> "idle", id |-> CallerVolume(c), sent |-> <<>>, device |-> EmptyStr,
         err |-> NilErr]]

\* no call is in progress
ClientIdle ==
    /\ callers = NoCallers
    /\ pc = "idle"
    /\ call = NoCall
    /\ sent = <<>>
    /\ recv = <<>>
    /\ decoded = {}
    /\ local = NoLocal
    /\ ret = NoRet
    /\ values = <<>>

Init ==
    /\ ebs = CommandClient
    /\ ClientIdle
    /\ NoCommand

Next ==
    \/ VolumesByTagsCall
    \/ VolumesByTagsResponse
    \/ VolumeByIdCall
    \/ VolumeByIdResponse
    \/ SnapshotByIdCall
    \/ SnapshotByIdResponse
    \/ CreateVolumeCall
    \/ CreateVolumeResponse
    \/ tagResourceResponse
    \/ DeleteVolumeCall
    \/ DeleteVolumeResponse
    \/ DeleteSnapshotCall
    \/ DeleteSnapshotResponse
    \/ AttachVolumeCall
    \/ getBlockDeviceMappingResponse
    \/ AttachVolumeResponse
    \/ DetachVolumeCall
    \/ DetachVolumeResponse
    \/ CreateSnapshotCall
    \/ CreateSnapshotResponse
    \/ SignedRequestCall
    \/ SignedRequestResponse
    \/ EndCall

Spec == Init /\ [][Next]_vars

\* the same operations on any client that can be constructed
InitClients ==
    /\ ebs \in Clients
    /\ ClientIdle
    /\ NoCommand

SpecClients == InitClients /\ [][Next]_vars

----------------------------------------------------------------------------
(* The remote service as the attach command meets it.  The service keeps   *)
(* volumes and snapshots, answers a request from what it keeps, and can    *)
(* fail any request without effect.                                        *)

\* the zone of the instances of InstanceIds, and one other zone and instance
HomeZone == CHOOSE z \in Zones : TRUE
OtherZone == "eu-west-1b"
OtherInstance == "i-2"
InstanceZone(instance) == IF instance \in InstanceIds THEN HomeZone ELSE OtherZone

\* the order in which the service lists and hands out identifiers
VolumeOrder == <<"vol-1", "vol-2">>
SnapshotOrder == <<"snap-1", "snap-2">>

\* the status constants of ebs.go
VolumeAvailable == "available"
VolumeInUse == "in-use"
SnapshotCompleted == "completed"

Exists(rem, id) == rem.volumes[id].state \notin {"absent", "deleted"}

\* the volume satisfies every tag filter of the parameters; of the tags of a
\* volume the service model keeps the Name tag
TagsMatch(v, p) ==
    \A k \in Keys(p) :
        (Len(k) = 3 /\ k[1] = "Filter" /\ k[3] = "Name") =>
            /\ Get(p, k) = <<"tag:", "Name">>
            /\ v.name = Get(p, <<"Filter", k[2], "Value">>)

\* the volumes a DescribeVolumes request selects
Selected(rem, p) ==
    IF Has(p, <<"VolumeId", 1>>)
    THEN SelectSeq(VolumeOrder,
                   LAMBDA id : Exists(rem, id) /\ id = Get(p, <<"VolumeId", 1>>))
    ELSE SelectSeq(VolumeOrder,
                   LAMBDA id : Exists(rem, id) /\ TagsMatch(rem.volumes[id], p))

\* a volume as an item of a volumeSet
VolumeElem(rem, id) ==
    LET v == rem.volumes[id]
    IN  [volumeId |-> id, availabilityZone |-> v.az, status |-> v.state,
         attachmentSet |->
             [i \in 1..Len(v.att) |->
                 [volumeId |-> id, instanceId |-> v.att[i].instanceId,
                  device |-> v.att[i].device, status |-> v.att[i].status]]]

\* the volumes attached to an instance, and the block-device mapping of the
\* instance: its root device and the devices of those volumes
AttachedTo(rem, instance) ==
    SelectSeq(VolumeOrder,
              LAMBDA id : /\ Exists(rem, id)
                          /\ rem.volumes[id].att # <<>>
                          /\ rem.volumes[id].att[1].instanceId = instance)

MappingOf(rem, instance) ==
    LET ids == AttachedTo(rem, instance)
    IN  <<[deviceName |-> DevXvda]>>
        \o [i \in 1..Len(ids) |-> [deviceName |-> rem.volumes[ids[i]].att[1].device]]

\* the identifiers the service has not handed out yet
FreshVolumes(rem) == SelectSeq(VolumeOrder, LAMBDA id : rem.volumes[id].state = "absent")
FreshSnapshots(rem) == SelectSeq(SnapshotOrder, LAMBDA id : rem.snapshots[id] = "absent")

\* the value of the Name tag in the parameters of a CreateTags request, "" if none
NameTag(p) ==
    LET ks == {k \in Keys(p) : Len(k) = 3 /\ k[1] = "Tag" /\ k[3] = "Key"
                               /\ Get(p, k) = "Name"}
    IN  IF ks = {} THEN "" ELSE Get(p, <<"Tag", (CHOOSE k \in ks : TRUE)[2], "Value">>)

Answer(rem, r) == [remote |-> rem, response |-> r]

\* the service refuses the request: status 400, the error code as the body
Refused(rem, code) == Answer(rem, Http(400, XmlBody(code, EmptyDoc)))

\* the answer of the service when it handles the request
Handled(rem, req) ==
    LET p == req.params
        action == Get(p, <<"Action">>)
        Ok(raw, doc) == Http(200, XmlBody(raw, doc))
    IN  CASE action = "DescribeVolumes" ->
                LET ids == Selected(rem, p)
                IN  Answer(rem, Ok("DescribeVolumesResponse",
                        [EmptyDoc EXCEPT !.volumeSet =
                            [i \in 1..Len(ids) |-> VolumeElem(rem, ids[i])]]))
          [] action = "DescribeSnapshots" ->
                LET id == Get(p, <<"SnapshotId", 1>>)
                    known == id \in DOMAIN rem.snapshots /\ rem.snapshots[id] # "absent"
                IN  Answer(rem, Ok("DescribeSnapshotsResponse",
                        [EmptyDoc EXCEPT !.snapshotSet =
                            IF known
                            THEN <<[snapshotId |-> id, volumeId |-> "vol-1",
                                    status |-> rem.snapshots[id],
                                    description |-> "migrate_zone"]>>
                            ELSE <<>>]))
          [] action = "CreateSnapshot" ->
                LET id == Get(p, <<"VolumeId">>)
                    fresh == FreshSnapshots(rem)
                IN  IF id \in VolumeIds /\ Exists(rem, id) /\ fresh # <<>>
                    THEN Answer([rem EXCEPT !.snapshots[fresh[1]] = "pending"],
                                Ok("CreateSnapshotResponse",
                                   [EmptyDoc EXCEPT !.snapshotId = fresh[1],
                                                    !.volumeId = id,
                                                    !.status = "pending",
                                                    !.description = Get(p, <<"Description">>)]))
                    ELSE Refused(rem, "InvalidVolume.NotFound")
          [] action = "DeleteVolume" ->
                LET id == Get(p, <<"VolumeId">>)
                IN  IF id \in VolumeIds /\ rem.volumes[id].state = "available"
                    THEN Answer([rem EXCEPT !.volumes[id].state = "deleted"],
                                Ok("DeleteVolumeResponse", EmptyDoc))
                    ELSE Refused(rem, "VolumeInUse")
          [] action = "CreateVolume" ->
                LET fresh == FreshVolumes(rem)
                    az == Get(p, <<"AvailabilityZone">>)
                    seeded == Has(p, <<"SnapshotId">>)
                    sid == Get(p, <<"SnapshotId">>)
                IN  IF /\ fresh # <<>>
                       /\ seeded => (sid \in DOMAIN rem.snapshots
                                     /\ rem.snapshots[sid] = "completed")
                    THEN Answer([rem EXCEPT !.volumes[fresh[1]] =
                                    [state |-> "creating", az |-> az, name |-> "",
                                     att |-> <<>>]],
                                Ok("CreateVolumeResponse",
                                   [EmptyDoc EXCEPT !.volumeId = fresh[1],
                                                    !.availabilityZone = az,
                                                    !.status = "creating"]))
                    ELSE Refused(rem, "InvalidParameterValue")
          [] action = "CreateTags" ->
                LET id == Get(p, <<"ResourceId", 1>>)
                IN  IF id \in VolumeIds /\ Exists(rem, id)
                    THEN Answer([rem EXCEPT !.volumes[id].name =
                                    IF NameTag(p) # "" THEN NameTag(p) ELSE @],
                                Ok("CreateTagsResponse", EmptyDoc))
                    ELSE Refused(rem, "InvalidID")
          [] action = "DescribeInstanceAttribute" ->
                LET instance == Get(p, <<"InstanceId">>)
                IN  Answer(rem, Ok("DescribeInstanceAttributeResponse",
                        [EmptyDoc EXCEPT !.instanceId = instance,
                                         !.blockDeviceMapping = MappingOf(rem, instance)]))
          [] action = "AttachVolume" ->
                LET id == Get(p, <<"VolumeId">>)
                    instance == Get(p, <<"InstanceId">>)
                    device == Get(p, <<"Device">>)
                    mapping == MappingOf(rem, instance)
                IN  IF /\ id \in VolumeIds
                       /\ rem.volumes[id].state = "available"
                       /\ rem.volumes[id].az = InstanceZone(instance)
                       /\ \A i \in 1..Len(mapping) : mapping[i].deviceName # device
                    THEN Answer([rem EXCEPT !.volumes[id].state = "in-use",
                                            !.volumes[id].att =
                                                <<[instanceId |-> instance,
                                                   device |-> device,
                                                   status |-> "attaching"]>>],
                                Ok("AttachVolumeResponse",
                                   [EmptyDoc EXCEPT !.volumeId = id,
                                                    !.instanceId = instance,
                                                    !.device = device,
                                                    !.status = "attaching"]))
                    ELSE Refused(rem, "IncorrectState")
          [] action = "DetachVolume" ->
                LET id == Get(p, <<"VolumeId">>)
                IN  IF /\ id \in VolumeIds
                       /\ rem.volumes[id].state = "in-use"
                       /\ rem.volumes[id].att # <<>>
                    THEN Answer([rem EXCEPT !.volumes[id].state = "available",
                                            !.volumes[id].att = <<>>],
                                Ok("DetachVolumeResponse",
                                   [EmptyDoc EXCEPT
                                       !.volumeId = id,
                                       !.instanceId = rem.volumes[id].att[1].instanceId,
                                       !.device = rem.volumes[id].att[1].device,
                                       !.status = "detaching"]))
                    ELSE Refused(rem, "IncorrectState")
          [] OTHER -> Refused(rem, "InvalidAction")

\* everything that can happen to a request: the service handles it, the
\* transport fails, or the service refuses it; the last two have no effect
Serve(rem, req) ==
    {Handled(rem, req), Answer(rem, TransportFailure), Refused(rem, "InternalError")}

----------------------------------------------------------------------------
(* The operations of the client as attachEbs calls them: from the request  *)
(* to the return, against the remote service.  Each gives the set of       *)
(* outcomes: the service afterwards, the requests sent, the values returned *)

Outcome(rem, reqs, r) == [remote |-> rem, sent |-> reqs, ret |-> r]

ClientVolumesByTags(rem, tags) ==
    LET req == signedRequest(VolumesByTagsRequest(tags))
    IN  {Outcome(a.remote, <<req>>, VolumesByTagsReturn(a.response)) :
            a \in Serve(rem, req)}

ClientVolumeById(rem, id) ==
    LET req == signedRequest(VolumeByIdRequest(id))
    IN  {Outcome(a.remote, <<req>>, VolumeByIdReturn(a.response)) :
            a \in Serve(rem, req)}

ClientSnapshotById(rem, id) ==
    LET req == signedRequest(SnapshotByIdRequest(id))
    IN  {Outcome(a.remote, <<req>>, SnapshotByIdReturn(a.response)) :
            a \in Serve(rem, req)}

ClientCreateSnapshot(rem, volumeId, description) ==
    LET req == signedRequest(CreateSnapshotRequest(volumeId, description))
    IN  {Outcome(a.remote, <<req>>, CreateSnapshotReturn(a.response)) :
            a \in Serve(rem, req)}

ClientDeleteVolume(rem, id) ==
    LET req == signedRequest(DeleteVolumeRequest(id))
    IN  {Outcome(a.remote, <<req>>, DeleteVolumeReturn(a.response)) :
            a \in Serve(rem, req)}

ClientDetachVolume(rem, id) ==
    LET req == signedRequest(DetachVolumeRequest(id))
    IN  {Outcome(a.remote, <<req>>, DetachVolumeReturn(a.response)) :
            a \in Serve(rem, req)}

ClientCreateVolume(rem, size, piops, ssd, az, snapshotId, tags) ==
    IF PiopsWithoutSsd(piops, ssd)
    THEN {Outcome(rem, <<>>,
                  [NoRet EXCEPT
                      !.err = Error("Provisioned IOPS volumes are only available as SSD")])}
    ELSE LET create == signedRequest(CreateVolumeRequest(size, piops, ssd, az, snapshotId))
         IN  UNION {
                 LET res == CreateVolumeDecoded(a.response)
                 IN  IF ~res.err.nil \/ ~TagsWanted(tags)
                     THEN {Outcome(a.remote, <<create>>, res)}
                     ELSE LET tag == signedRequest(tagResourceRequest(res.vol[1].Id, tags))
                          IN  {Outcome(b.remote, <<create, tag>>,
                                       tagResourceReturn(res.vol, b.response)) :
                                  b \in Serve(a.remote, tag)}
                 : a \in Serve(rem, create)}

ClientAttachVolume(rem, id, instance) ==
    LET describe == signedRequest(getBlockDeviceMappingRequest(instance))
    IN  UNION {
            LET res == getBlockDeviceMappingReturn(a.response)
                device == AllocateDevice(res.mapping)
                attach == signedRequest(AttachVolumeRequest(id, instance, device))
            IN  IF ~res.err.nil
                THEN {Outcome(a.remote, <<describe>>, [NoRet EXCEPT !.err = res.err])}
                ELSE {Outcome(b.remote, <<describe, attach>>,
                              AttachVolumeReturn(device, b.response)) :
                         b \in Serve(a.remote, attach)}
            : a \in Serve(rem, describe)}

----------------------------------------------------------------------------
(* The attach command: attachEbs *)

\* the longest wait for a snapshot or a volume and the pause between two
\* status queries, in seconds
Timeout == 30
PollInterval == 1

\* the n-th status query starts n pauses after the goroutine did, so the
\* queries that can start before the timer fires are bounded
MaxPolls == Timeout \div PollInterval

\* the number of attach invocations in a row
MaxRuns == 2

\* the flags of the command; the instance lives in the zone given as az
AttachFlags ==
    [name : {"test"}, size : Sizes, ssd : BOOLEAN, piops : Piops, snapshot : Snapshots,
     instance : InstanceIds, az : Zones]

\* the tags attachEbs looks the volume up by and creates it with
NameTags(f) == <<[Key |-> "Name", Value |-> f.name]>>

Named(state, az, att) == [state |-> state, az |-> az, name |-> "test", att |-> att]

Attached(instance) == <<[instanceId |-> instance, device |-> DevSdf, status |-> "attached"]>>

AttachedAt(instance, device) ==
    <<[instanceId |-> instance, device |-> device, status |-> "attached"]>>

\* what the service can hold when the command is first invoked: a first
\* volume of the name in either zone, free or attached, or none, with or
\* without a second one, and the snapshot the flags name.  The attachment
\* set is a list the service fills: it can be empty for a volume in use,
\* name the instance in a record after the first, or name it for a volume
\* whose status is another
FirstVolumes ==
    {NoVolume,
     Named("available", HomeZone, <<>>),
     Named("available", OtherZone, <<>>),
     Named("in-use", HomeZone, Attached("i-1")),
     Named("in-use", HomeZone, Attached(OtherInstance)),
     Named("in-use", OtherZone, Attached(OtherInstance)),
     Named("in-use", HomeZone, <<>>),
     Named("in-use", HomeZone, Attached(OtherInstance) \o AttachedAt("i-1", DevSdg)),
     Named("available", HomeZone, AttachedAt("i-1", DevSdg))}

SecondVolumes == {NoVolume, Named("available", HomeZone, <<>>)}

InitialRemotes(f) ==
    {[volumes |-> [id \in VolumeIds |-> IF id = "vol-1" THEN a ELSE b],
      snapshots |-> [id \in {"snap-1", "snap-2"} |->
                        IF id = f.snapshot THEN "completed" ELSE "absent"]] :
        a \in FirstVolumes, b \in SecondVolumes}

\* a goroutine of attachEbs that polls, and its channel wait; polls counts
\* its status queries while the select that waits for it is pending
Polling == [state |-> "running", polls |-> 0, last |-> "", wait |-> "open", asked |-> {},
     late |-> FALSE, raced |-> FALSE]

\* the goroutine has issued the requests reqs; late, when it did so after
\* the timer of the select had fired
Asking(p, reqs) ==
    [p EXCEPT !.asked = @ \cup {reqs[i] : i \in 1..Len(reqs)},
              !.late = @ \/ apc = "Exiting"]

\* the select is over, or the process is: the goroutine polls no more
Stopped(p) == [p EXCEPT !.polls = 0, !.state = IF @ = "running" THEN "exited" ELSE @]

\* the request is a status query by id, as the goroutines issue them
IsPoll(req) ==
    Has(req.params, <<"VolumeId", 1>>) \/ Has(req.params, <<"SnapshotId", 1>>)

\* the requests of an operation join the requests issued; of a run of equal
\* status queries the log keeps the first
RECURSIVE Issue(_, _)
Issue(log, reqs) ==
    IF reqs = <<>>
    THEN log
    ELSE Issue(IF log # <<>> /\ Last(log) = Head(reqs) /\ IsPoll(Head(reqs))
               THEN log
               ELSE Append(log, Head(reqs)),
               Tail(reqs))

\* attachEbs goes on at the location l
Goto(l) ==
    /\ apc' = l
    /\ fatal' = fatal

\* log.Fatal and the like: the message is logged and the process exits; a
\* panic ends the process the same way
Fatal(msg) ==
    /\ apc' = "Fail"
    /\ fatal' = msg

\* the message of the runtime when a nil pointer is dereferenced
NilDereference == "panic: nil pointer dereference"

\* the command is invoked: the locals of attachEbs are fresh, the service
\* is what the invocations before left
Invoke ==
    /\ apc \in {"idle", "Done", "Fail"}
    /\ run < MaxRuns
    /\ run' = run + 1
    /\ history' = IF apc = "idle"
                  THEN history
                  ELSE Append(history, [exit |-> apc, stdout |-> stdout])
    /\ apc' = "Resolve"
    /\ vols' = <<>>
    /\ volume' = <<>>
    /\ snapshot' = ""
    /\ poller' = [snapshot |-> NoPoller, volume |-> NoPoller]
    /\ issued' = <<>>
    /\ logged' = <<>>
    /\ stdout' = <<>>
    /\ fatal' = ""
    /\ UNCHANGED <<remote, flags, cvars>>

MoreThanOneIgnored(vs) == FALSE

\* the test len(vols) > 1
MoreThanOne(vs) == Len(vs) > 1

NeedsMigrationAlways(vol, az) == TRUE

\* the test vols[0].AvailabilityZone != instanceAz
NeedsMigration(vol, az) == vol.AvailabilityZone # az

\* Resolve: the lookup by name and the choice between Reuse, Migrate and Create
Resolve ==
    /\ apc = "Resolve"
    /\ \E o \in ClientVolumesByTags(remote, NameTags(flags)) :
        /\ remote' = o.remote
        /\ issued' = Issue(issued, o.sent)
        /\ vols' = o.ret.vols
        /\ IF ~o.ret.err.nil
           THEN /\ Fatal(o.ret.err.msg)
                /\ UNCHANGED <<volume, snapshot, logged>>
           ELSE IF MoreThanOne(o.ret.vols)
           THEN /\ Fatal("More than one volume exist with the name")
                /\ UNCHANGED <<volume, snapshot, logged>>
           ELSE /\ snapshot' = flags.snapshot
                /\ IF Len(o.ret.vols) = 1
                   THEN IF NeedsMigration(o.ret.vols[1], flags.az)
                        THEN /\ Goto("Migrate")
                             /\ UNCHANGED <<volume, logged>>
                        ELSE /\ volume' = <<o.ret.vols[1]>>
                             /\ logged' = Append(logged, "Re-Used volume from same AZ")
                             /\ Goto("Attach")
                   ELSE /\ Goto("Create")
                        /\ UNCHANGED <<volume, logged>>
    /\ UNCHANGED <<flags, run, poller, stdout, history, cvars>>

\* Migrate: the snapshot of the volume in the other zone is asked for and
\* the goroutine that polls it is started
Migrate ==
    /\ apc = "Migrate"
    /\ \E o \in ClientCreateSnapshot(remote, vols[1].Id, "migrate_zone") :
        /\ remote' = o.remote
        /\ issued' = Issue(issued, o.sent)
        /\ IF ~o.ret.err.nil
           THEN /\ Fatal("Error creating snapshot")
                /\ UNCHANGED <<snapshot, poller>>
           ELSE /\ snapshot' = o.ret.snap[1].Id
                /\ poller' = [poller EXCEPT !.snapshot = Polling]
                /\ Goto("WaitSnapshot")
    /\ UNCHANGED <<flags, run, vols, volume, logged, stdout, history, cvars>>

IsCompletedAnyStatus(status) == TRUE

IsCompletedUnlessPending(status) == status \notin {"pending", "error"}

IsCompletedOrError(status) == status \in {SnapshotCompleted, "error"}

\* the test snap.Status == aws.SnapshotCompleted
IsCompleted(status) == status = SnapshotCompleted

PollSnapshotDeletingOld ==
    /\ apc \in {"WaitSnapshot", "Exiting"}
    /\ poller.snapshot.state = "running"
    /\ poller.snapshot.polls < MaxPolls
    /\ \E o \in ClientSnapshotById(remote, snapshot) :
        IF ~o.ret.err.nil
        THEN /\ remote' = o.remote
             /\ issued' = Issue(issued, o.sent)
             /\ Fatal("Could not update snapshot status")
             /\ poller' = [poller EXCEPT
                    !.snapshot = [Stopped(Asking(@, o.sent)) EXCEPT !.state = "failed"]]
        ELSE LET status == o.ret.snap[1].Status
             IN  IF ~IsCompleted(status)
                 THEN /\ remote' = o.remote
                      /\ issued' = Issue(issued, o.sent)
                      /\ Goto(apc)
                      /\ poller' = [poller EXCEPT
                             !.snapshot.asked = Asking(poller.snapshot, o.sent).asked,
                           !.snapshot.late = Asking(poller.snapshot, o.sent).late,
                             !.snapshot.polls = @ + 1,
                             !.snapshot.last = status]
                 ELSE \E dl \in ClientDeleteVolume(o.remote, vols[1].Id) :
                      /\ remote' = dl.remote
                      /\ issued' = Issue(issued, o.sent \o dl.sent)
                      /\ Goto(apc)
                      /\ poller' = [poller EXCEPT
                             !.snapshot.asked =
                                 Asking(poller.snapshot, o.sent \o dl.sent).asked,
                             !.snapshot.polls = @ + 1,
                             !.snapshot.last = status,
                             !.snapshot.state = "returned",
                             !.snapshot.wait = "closed"]
    /\ UNCHANGED <<flags, run, vols, volume, snapshot, logged, stdout, history, cvars>>

\* one round of the goroutine that polls the snapshot: the pause, the query,
\* the test of the status.  The goroutine runs while attachEbs waits in the
\* select and, when the timer has fired, until the process has exited
PollSnapshot ==
    /\ apc \in {"WaitSnapshot", "Exiting"}
    /\ poller.snapshot.state = "running"
    /\ poller.snapshot.polls < MaxPolls
    /\ \E o \in ClientSnapshotById(remote, snapshot) :
        /\ remote' = o.remote
        /\ issued' = Issue(issued, o.sent)
        /\ IF ~o.ret.err.nil
           THEN /\ Fatal("Could not update snapshot status")
                /\ poller' = [poller EXCEPT
                       !.snapshot = [Stopped(Asking(@, o.sent)) EXCEPT !.state = "failed"]]
           ELSE LET status == o.ret.snap[1].Status
                IN  /\ Goto(apc)
                    /\ poller' = [poller EXCEPT
                           !.snapshot.asked = Asking(poller.snapshot, o.sent).asked,
                           !.snapshot.late = Asking(poller.snapshot, o.sent).late,
                           !.snapshot.polls = @ + 1,
                           !.snapshot.last = status,
                           !.snapshot.state =
                               IF IsCompleted(status) THEN "returned" ELSE @,
                           !.snapshot.wait =
                               IF IsCompleted(status) THEN "closed" ELSE @]
    /\ UNCHANGED <<flags, run, vols, volume, snapshot, logged, stdout, history, cvars>>

\* log.Fatalf of a select whose timer fired: the message is logged and the
\* process is about to exit, the goroutine that polls still runs
Exiting(msg) ==
    /\ apc' = "Exiting"
    /\ fatal' = msg

\* the timer of the select fires while attachEbs waits for the snapshot
SnapshotTimeout ==
    /\ apc = "WaitSnapshot"
    /\ Exiting("Timed out waiting for snapshot to complete")
    /\ UNCHANGED <<remote, flags, run, vols, volume, snapshot, poller, issued, logged,
                   stdout, history, cvars>>

\* os.Exit of that log.Fatalf: the process and its goroutines are gone
Exit ==
    /\ apc = "Exiting"
    /\ apc' = "Fail"
    /\ poller' = [snapshot |-> Stopped(poller.snapshot), volume |-> Stopped(poller.volume)]
    /\ UNCHANGED <<remote, flags, run, vols, volume, snapshot, issued, logged, stdout,
                   fatal, history, cvars>>

DeleteOldOrDie ==
    /\ apc = "WaitSnapshot"
    /\ poller.snapshot.wait = "closed"
    /\ \E o \in ClientDeleteVolume(remote, vols[1].Id) :
        /\ remote' = o.remote
        /\ issued' = Issue(issued, o.sent)
        /\ logged' = logged \o <<"Created snapshot">>
                     \o IF ~o.ret.err.nil
                        THEN <<"WARNING: Was not able to delete old volume">>
                        ELSE <<>>
        /\ poller' = [poller EXCEPT !.snapshot = Stopped(@)]
        /\ IF ~o.ret.err.nil
           THEN Fatal("Was not able to delete old volume")
           ELSE Goto("Create")
    /\ UNCHANGED <<flags, run, vols, volume, snapshot, stdout, history, cvars>>

DeleteOldOnceReplaced ==
    \/ /\ apc = "WaitSnapshot"
       /\ poller.snapshot.wait = "closed"
       /\ logged' = Append(logged, "Created snapshot")
       /\ poller' = [poller EXCEPT !.snapshot = Stopped(@)]
       /\ Goto("Create")
       /\ UNCHANGED <<remote, flags, run, vols, volume, snapshot, issued, stdout,
                      history, cvars>>
    \/ /\ apc = "Attach"
       /\ poller.snapshot.wait = "closed"
       /\ \A i \in 1..Len(issued) : Get(issued[i].params, <<"Action">>) # "DeleteVolume"
       /\ \E o \in ClientDeleteVolume(remote, vols[1].Id) :
           /\ remote' = o.remote
           /\ issued' = Issue(issued, o.sent)
           /\ logged' = logged
                        \o IF ~o.ret.err.nil
                           THEN <<"WARNING: Was not able to delete old volume">>
                           ELSE <<>>
           /\ Goto("Attach")
       /\ UNCHANGED <<flags, run, vols, volume, snapshot, poller, stdout, history, cvars>>

\* the select receives from wait: the old volume is deleted, a failure of
\* that is logged, and attachEbs goes on to create the volume
DeleteOld ==
    /\ apc = "WaitSnapshot"
    /\ poller.snapshot.wait = "closed"
    /\ \E o \in ClientDeleteVolume(remote, vols[1].Id) :
        /\ remote' = o.remote
        /\ issued' = Issue(issued, o.sent)
        /\ logged' = logged \o <<"Created snapshot">>
                     \o IF ~o.ret.err.nil
                        THEN <<"WARNING: Was not able to delete old volume">>
                        ELSE <<>>
        /\ poller' = [poller EXCEPT !.snapshot = Stopped(@)]
        /\ Goto("Create")
    /\ UNCHANGED <<flags, run, vols, volume, snapshot, stdout, history, cvars>>

CreateRetrying ==
    /\ apc = "Create"
    /\ volume = <<>>
    /\ \E first \in ClientCreateVolume(remote, flags.size, flags.piops, flags.ssd, flags.az,
                                       snapshot, NameTags(flags)) :
       \E o \in IF first.ret.err.nil
                THEN {first}
                ELSE {[second EXCEPT !.sent = first.sent \o @] :
                         second \in ClientCreateVolume(first.remote, flags.size,
                                                       flags.piops, flags.ssd, flags.az,
                                                       snapshot, NameTags(flags))} :
        /\ remote' = o.remote
        /\ issued' = Issue(issued, o.sent)
        /\ volume' = o.ret.vol
        /\ IF ~o.ret.err.nil
           THEN /\ Fatal(o.ret.err.msg)
                /\ UNCHANGED poller
           ELSE /\ poller' = [poller EXCEPT !.volume = Polling]
                /\ Goto("WaitVolume")
    /\ UNCHANGED <<flags, run, vols, snapshot, logged, stdout, history, cvars>>

\* Create: the volume is created and the goroutine that polls it is started
Create ==
    /\ apc = "Create"
    /\ volume = <<>>
    /\ \E o \in ClientCreateVolume(remote, flags.size, flags.piops, flags.ssd, flags.az,
                                   snapshot, NameTags(flags)) :
        /\ remote' = o.remote
        /\ issued' = Issue(issued, o.sent)
        /\ volume' = o.ret.vol
        /\ IF ~o.ret.err.nil
           THEN /\ Fatal(o.ret.err.msg)
                /\ UNCHANGED poller
           ELSE /\ poller' = [poller EXCEPT !.volume = Polling]
                /\ Goto("WaitVolume")
    /\ UNCHANGED <<flags, run, vols, snapshot, logged, stdout, history, cvars>>

IsAvailableAnyStatus(status) == TRUE

\* the test volume.Status == aws.VolumeAvailable
IsAvailable(status) == status = VolumeAvailable

\* one round of the goroutine that polls the volume.  The result of the
\* query is assigned to volume before the error is looked at: on an error
\* volume is nil and the argument volume.Id of log.Fatalf panics; the
\* goroutine unwinds, its deferred close(wait) runs, and the runtime is about
\* to end the process
PollVolume ==
    /\ apc \in {"WaitVolume", "Exiting"}
    /\ poller.volume.state = "running"
    /\ poller.volume.polls < MaxPolls
    /\ \E o \in ClientVolumeById(remote, volume[1].Id) :
        /\ remote' = o.remote
        /\ issued' = Issue(issued, o.sent)
        /\ volume' = o.ret.vol
        /\ IF ~o.ret.err.nil
           THEN /\ Goto(apc)
                /\ poller' = [poller EXCEPT
                       !.volume = [Stopped(Asking(@, o.sent)) EXCEPT
                                      !.wait = "closed", !.state = "panicked"]]
           ELSE LET status == o.ret.vol[1].Status
                IN  /\ Goto(apc)
                    /\ poller' = [poller EXCEPT
                           !.volume.asked = Asking(poller.volume, o.sent).asked,
                           !.volume.late = Asking(poller.volume, o.sent).late,
                           !.volume.polls = @ + 1,
                           !.volume.last = status,
                           !.volume.state =
                               IF IsAvailable(status) THEN "returned" ELSE @,
                           !.volume.wait =
                               IF IsAvailable(status) THEN "closed" ELSE @]
    /\ UNCHANGED <<flags, run, vols, snapshot, logged, stdout, history, cvars>>

\* attachEbs reads the variable volume without having received from wait:
\* raced, when the goroutine is still running and can assign to it
ReadUnsignalled(p) == [p EXCEPT !.raced = @ \/ p.state = "running"]

VolumeTimeoutNever ==
    /\ apc = "WaitVolume"
    /\ FALSE
    /\ UNCHANGED vars

VolumeTimeoutRollingBack ==
    /\ apc = "WaitVolume"
    /\ volume # <<>>
    /\ Exiting("Timed out waiting for volume to become available")
    /\ \E o \in ClientDeleteVolume(remote, volume[1].Id) :
        /\ remote' = o.remote
        /\ issued' = Issue(issued, o.sent)
    /\ UNCHANGED <<flags, run, vols, volume, snapshot, poller, logged, stdout, history,
                   cvars>>

\* the timer of the select fires while attachEbs waits for the volume; the
\* message reads volume.Id, and volume is nil once a query of the goroutine
\* has failed
VolumeTimeout ==
    /\ apc = "WaitVolume"
    /\ IF volume = <<>>
       THEN Fatal(NilDereference)
       ELSE Exiting("Timed out waiting for volume to become available")
    /\ poller' = [poller EXCEPT !.volume = ReadUnsignalled(@)]
    /\ UNCHANGED <<remote, flags, run, vols, volume, snapshot, issued, logged, stdout,
                   history, cvars>>

\* the runtime ends the process after the panic of the goroutine
Crash ==
    /\ apc \in {"WaitVolume", "Exiting"}
    /\ poller.volume.state = "panicked"
    /\ Fatal(NilDereference)
    /\ UNCHANGED <<remote, flags, run, vols, volume, snapshot, poller, issued, logged,
                   stdout, history, cvars>>

\* the select receives from wait, which the goroutine closed when it
\* returned or when it panicked; the message reads volume.Id
VolumeReady ==
    /\ apc = "WaitVolume"
    /\ poller.volume.wait = "closed"
    /\ IF volume = <<>>
       THEN /\ Fatal(NilDereference)
            /\ UNCHANGED logged
       ELSE /\ logged' = Append(logged, "Created volume")
            /\ Goto("Attach")
    /\ poller' = [poller EXCEPT !.volume = Stopped(@)]
    /\ UNCHANGED <<remote, flags, run, vols, volume, snapshot, issued, stdout, history,
                   cvars>>

InUseOrAttached(vol) == vol.AttachmentSet # <<>>

\* the test of the volume status and the read of AttachmentSet.Items[0]
InUse(vol) == vol.Status = VolumeInUse

\* Attach, when the volume is in use: the first attachment is read (the
\* index panics when there is none) and, if it is one to the instance, its
\* device is printed
PrintAttached ==
    /\ apc = "Attach"
    /\ InUse(volume[1])
    /\ volume[1].AttachmentSet # <<>> =>
           volume[1].AttachmentSet[1].InstanceId = flags.instance
    /\ IF volume[1].AttachmentSet = <<>>
       THEN /\ Fatal("panic: index out of range")
            /\ UNCHANGED stdout
       ELSE /\ stdout' = Append(stdout, volume[1].AttachmentSet[1].Device)
            /\ apc' = "Done"
            /\ fatal' = fatal
    /\ UNCHANGED <<remote, flags, run, vols, volume, snapshot, poller, issued, logged,
                   history, cvars>>

AttachPrintingBeforeTheError ==
    /\ apc = "Attach"
    /\ ~InUse(volume[1]) \/ (/\ volume[1].AttachmentSet # <<>>
                             /\ volume[1].AttachmentSet[1].InstanceId # flags.instance)
    /\ \E o \in ClientAttachVolume(remote, volume[1].Id, flags.instance) :
        /\ remote' = o.remote
        /\ issued' = Issue(issued, o.sent)
        /\ stdout' = Append(stdout, o.ret.device)
        /\ IF ~o.ret.err.nil
           THEN Fatal("Could not attach volume")
           ELSE /\ apc' = "Done"
                /\ fatal' = fatal
    /\ UNCHANGED <<flags, run, vols, volume, snapshot, poller, logged, history, cvars>>

\* Attach, otherwise: the volume is attached and the path is printed
Attach ==
    /\ apc = "Attach"
    /\ ~InUse(volume[1]) \/ (/\ volume[1].AttachmentSet # <<>>
                             /\ volume[1].AttachmentSet[1].InstanceId # flags.instance)
    /\ \E o \in ClientAttachVolume(remote, volume[1].Id, flags.instance) :
        /\ remote' = o.remote
        /\ issued' = Issue(issued, o.sent)
        /\ IF ~o.ret.err.nil
           THEN /\ Fatal("Could not attach volume")
                /\ UNCHANGED stdout
           ELSE /\ stdout' = Append(stdout, o.ret.device)
                /\ apc' = "Done"
                /\ fatal' = fatal
    /\ UNCHANGED <<flags, run, vols, volume, snapshot, poller, logged, history, cvars>>

\* the statuses the service can report that ebs.go has no constant for
UnknownVolumeStatus == "impaired"
UnknownSnapshotStatus == "recoverable"

\* the service finishes a volume, or reports a status of its own for it
VolumeProgress ==
    /\ \E id \in VolumeIds, status \in {VolumeAvailable, UnknownVolumeStatus} :
        /\ remote.volumes[id].state = "creating"
        /\ remote' = [remote EXCEPT !.volumes[id].state = status]
    /\ UNCHANGED <<flags, run, apc, vols, volume, snapshot, poller, issued, logged,
                   stdout, fatal, history, cvars>>

\* the service finishes a snapshot, gives it up, or reports a status of its
\* own for it
SnapshotProgress ==
    /\ \E id \in DOMAIN remote.snapshots,
          status \in {SnapshotCompleted, "error", UnknownSnapshotStatus} :
        /\ remote.snapshots[id] = "pending"
        /\ remote' = [remote EXCEPT !.snapshots[id] = status]
    /\ UNCHANGED <<flags, run, apc, vols, volume, snapshot, poller, issued, logged,
                   stdout, fatal, history, cvars>>

InitAttach ==
    /\ ebs = CommandClient
    /\ ClientIdle
    /\ flags \in AttachFlags
    /\ remote \in InitialRemotes(flags)
    /\ run = 0
    /\ apc = "idle"
    /\ history = <<>>
    /\ vols = <<>>
    /\ volume = <<>>
    /\ snapshot = ""
    /\ poller = [snapshot |-> NoPoller, volume |-> NoPoller]
    /\ issued = <<>>
    /\ logged = <<>>
    /\ stdout = <<>>
    /\ fatal = ""

NextAttach ==
    \/ Invoke
    \/ Resolve
    \/ Migrate
    \/ PollSnapshot
    \/ SnapshotTimeout
    \/ Exit
    \/ DeleteOld
    \/ Create
    \/ PollVolume
    \/ VolumeTimeout
    \/ VolumeReady
    \/ Crash
    \/ PrintAttached
    \/ Attach
    \/ VolumeProgress
    \/ SnapshotProgress

SpecAttach == InitAttach /\ [][NextAttach]_vars

\* the steps of attachEbs itself: each is a remote call that returns or a
\* receive from a channel that was closed
AttachSteps ==
    \/ Resolve \/ Migrate \/ DeleteOld \/ Create \/ VolumeReady \/ PrintAttached
    \/ Attach \/ Exit \/ Crash

\* the timers of the two selects
Timers == SnapshotTimeout \/ VolumeTimeout

\* attachEbs is scheduled and its remote calls return; time passes, so a
\* timer that was started fires unless the select has ended before.  The
\* service is under no obligation to finish a snapshot or a volume
SpecAttachLive == SpecAttach /\ WF_vars(AttachSteps) /\ WF_vars(Timers)

----------------------------------------------------------------------------
(* The detach command: detachEbs *)

\* the flags of the detach command
DetachFlags == {[NoFlags EXCEPT !.name = "test"]}

\* the command is invoked: the locals of detachEbs are fresh
InvokeDetach ==
    /\ apc \in {"idle", "Done", "Fail"}
    /\ run < MaxRuns
    /\ run' = run + 1
    /\ history' = IF apc = "idle"
                  THEN history
                  ELSE Append(history, [exit |-> apc, stdout |-> stdout])
    /\ apc' = "Lookup"
    /\ vols' = <<>>
    /\ issued' = <<>>
    /\ logged' = <<>>
    /\ fatal' = ""
    /\ UNCHANGED <<remote, flags, volume, snapshot, poller, stdout, cvars>>

NotOneUnlessSeveral(vs) == Len(vs) = 0

\* the test len(vols) != 1
NotOne(vs) == Len(vs) # 1

\* the lookup by name and the test of the number of volumes found
DetachLookup ==
    /\ apc = "Lookup"
    /\ \E o \in ClientVolumesByTags(remote, NameTags(flags)) :
        /\ remote' = o.remote
        /\ issued' = Issue(issued, o.sent)
        /\ vols' = o.ret.vols
        /\ IF ~o.ret.err.nil
           THEN Fatal("Not able to find the volume by name")
           ELSE IF NotOne(o.ret.vols)
           THEN Fatal("Expected exactly one volume by the name")
           ELSE Goto("Detach")
    /\ UNCHANGED <<flags, run, volume, snapshot, poller, logged, stdout, history, cvars>>

\* DetachVolume for the volume found, and the status it returns logged
Detach ==
    /\ apc = "Detach"
    /\ \E o \in ClientDetachVolume(remote, vols[1].Id) :
        /\ remote' = o.remote
        /\ issued' = Issue(issued, o.sent)
        /\ IF ~o.ret.err.nil
           THEN /\ Fatal("Could not detach volume")
                /\ UNCHANGED logged
           ELSE /\ logged' = Append(logged, o.ret.status)
                /\ apc' = "Done"
                /\ fatal' = fatal
    /\ UNCHANGED <<flags, run, vols, volume, snapshot, poller, stdout, history, cvars>>

InitDetach ==
    /\ ebs = CommandClient
    /\ ClientIdle
    /\ flags \in DetachFlags
    /\ remote \in InitialRemotes(flags)
    /\ run = 0
    /\ apc = "idle"
    /\ history = <<>>
    /\ NoLocals

NextDetach ==
    \/ InvokeDetach
    \/ DetachLookup
    \/ Detach

SpecDetach == InitDetach /\ [][NextDetach]_vars

----------------------------------------------------------------------------
(* Two calls of AttachVolume side by side *)

\* the instance both callers attach to
SharedInstance == "i-1"

\* what the service holds when the two call: each of the two volumes is
\* free in the zone of the instance or in another, or attached to the
\* instance already
SideBySideRemotes ==
    LET each == {Named("available", HomeZone, <<>>),
                 Named("available", OtherZone, <<>>),
                 Named("in-use", HomeZone, Attached(SharedInstance))}
    IN  {[volumes |-> [id \in VolumeIds |-> IF id = "vol-1" THEN a ELSE b],
          snapshots |-> [id \in {"snap-1", "snap-2"} |-> "absent"]] :
            a \in each, b \in each}

\* AttachVolume up to the request of getBlockDeviceMapping
CallerBegins(c) ==
    /\ callers[c].pc = "idle"
    /\ LET describe == signedRequest(getBlockDeviceMappingRequest(SharedInstance))
       IN  /\ callers' = [callers EXCEPT ![c].pc = "mapping", ![c].sent = <<describe>>]
           /\ issued' = Append(issued, describe)
    /\ UNCHANGED <<ebs, pc, call, sent, recv, decoded, local, ret, values, remote, flags,
                   run, apc, vols, volume, snapshot, poller, logged, stdout, fatal,
                   history>>

\* the service answers the mapping query as the instance is then;
\* AttachVolume returns its error, or computes the device path from the
\* mapping and sends its AttachVolume request
CallerMapped(c) ==
    /\ callers[c].pc = "mapping"
    /\ \E a \in Serve(remote, callers[c].sent[1]) :
        LET res == getBlockDeviceMappingReturn(a.response)
            device == AllocateDevice(res.mapping)
            attach == signedRequest(AttachVolumeRequest(callers[c].id, SharedInstance,
                                                        device))
        IN  /\ remote' = a.remote
            /\ IF ~res.err.nil
               THEN /\ callers' = [callers EXCEPT ![c].pc = "done", ![c].err = res.err]
                    /\ UNCHANGED issued
               ELSE /\ callers' = [callers EXCEPT ![c].pc = "attach",
                                                  ![c].device = device,
                                                  ![c].sent = Append(@, attach)]
                    /\ issued' = Append(issued, attach)
    /\ UNCHANGED <<ebs, pc, call, sent, recv, decoded, local, ret, values, flags, run, apc,
                   vols, volume, snapshot, poller, logged, stdout, fatal, history>>

\* the service answers the AttachVolume request and AttachVolume returns
CallerAttached(c) ==
    /\ callers[c].pc = "attach"
    /\ \E b \in Serve(remote, callers[c].sent[2]) :
        /\ remote' = b.remote
        /\ callers' = [callers EXCEPT
               ![c].pc = "done",
               ![c].err = AttachVolumeReturn(callers[c].device, b.response).err]
    /\ UNCHANGED <<ebs, pc, call, sent, recv, decoded, local, ret, values, flags, run, apc,
                   vols, volume, snapshot, poller, issued, logged, stdout, fatal,
                   history>>

InitSideBySide ==
    /\ ebs = CommandClient
    /\ ClientIdle
    /\ flags = NoFlags
    /\ remote \in SideBySideRemotes
    /\ run = 0
    /\ apc = "idle"
    /\ history = <<>>
    /\ NoLocals

NextSideBySide ==
    \E c \in Callers :
        \/ CallerBegins(c)
        \/ CallerMapped(c)
        \/ CallerAttached(c)

SpecSideBySide == InitSideBySide /\ [][NextSideBySide]_vars

----------------------------------------------------------------------------
(* Properties of the device path allocator *)

\* the requests of this call with the given action
RequestsOf(action) == {i \in 1..Len(sent) : Get(sent[i].params, <<"Action">>) = action}

\* AttachVolume has sent its AttachVolume request
AttachSent == call.op = "AttachVolume" /\ RequestsOf("AttachVolume") # {}

\* the deviceName entries of the mapping the service returned to this call
ReturnedPaths ==
    [k \in 1..Len(recv[1].body.doc.blockDeviceMapping) |->
        recv[1].body.doc.blockDeviceMapping[k].deviceName]

\* the Device parameter of the AttachVolume request of this call
SentDevice == Get(sent[CHOOSE i \in RequestsOf("AttachVolume") : TRUE].params, <<"Device">>)

\* C1: the device path AttachVolume sends as the Device parameter differs
\* from the path of every entry of the block-device mapping that was
\* returned for the instance, whatever the entries and their order.
C1_DeviceNotInMapping ==
    AttachSent =>
        /\ Count(sent[2].params, <<"Device">>) = 1
        /\ \A k \in 1..Len(ReturnedPaths) : ReturnedPaths[k] # SentDevice

\* a mapping that holds paths of both lengths, out of order, was answered
C1_Witness ==
    /\ AttachSent
    /\ ReturnedPaths = <<DevSdg, DevSdf1, DevSdf>>
    /\ SentDevice = DevSdh

\* the rearrangements of a sequence
Rearrangements(s) ==
    {[i \in 1..Len(s) |-> s[f[i]]] :
        f \in {g \in [1..Len(s) -> 1..Len(s)] : \A i, j \in 1..Len(s) : g[i] = g[j] => i = j}}

\* C2: the device path depends only on the set of mapping entries: every
\* rearrangement of the returned mapping gives the device path that was sent.
C2_OrderIndependent ==
    AttachSent =>
        \A m \in Rearrangements(local.mapping) : AllocateDevice(m) = SentDevice

\* C3: the allocator gives /dev/sdf for an empty mapping, /dev/sdg for the
\* entries /dev/xvda, /dev/sdf (the entry outside /dev/sd* is ignored) and
\* /dev/sdh for the entries /dev/sdf, /dev/sdg.
C3_AllocatorExamples ==
    AttachSent =>
        /\ ReturnedPaths = <<>> => SentDevice = DevSdf
        /\ ReturnedPaths = <<DevXvda, DevSdf>> => SentDevice = DevSdg
        /\ ReturnedPaths = <<DevSdf, DevSdg>> => SentDevice = DevSdh

\* the mapping of the unit test was answered and the request went out
C3_Witness ==
    /\ AttachSent
    /\ ReturnedPaths = <<DevXvda, DevSdf>>
    /\ SentDevice = DevSdg

----------------------------------------------------------------------------
(* Properties of CreateVolume *)

ActionsSent == [i \in 1..Len(sent) |-> Get(sent[i].params, <<"Action">>)]

\* C4: CreateVolume with piops > 0 and ssd = false returns the error
\* "Provisioned IOPS volumes are only available as SSD" and no volume, and
\* sends no request at all, for every size, zone, snapshot and tag list.
C4_PiopsNeedsSsd ==
    (call.op = "CreateVolume" /\ call.piops > 0 /\ ~call.ssd) =>
        /\ pc = "done"
        /\ sent = <<>>
        /\ ret.err = Error("Provisioned IOPS volumes are only available as SSD")
        /\ ret.vol = <<>>

\* such a call, with a snapshot and tags, has returned
C4_Witness ==
    /\ pc = "done"
    /\ call.op = "CreateVolume"
    /\ call.piops = 1000
    /\ ~call.ssd
    /\ call.snapshot # ""
    /\ Len(call.tags) = 2
    /\ ~ret.err.nil

\* C5: a CreateVolume that returns without error has sent exactly two
\* requests when the tag list is not empty, CreateVolume and then CreateTags
\* for the volume id the first response carried, and exactly one request,
\* CreateVolume, when the tag list is empty.
C5_CreateThenTag ==
    (pc = "done" /\ call.op = "CreateVolume" /\ ret.err.nil) =>
        IF Len(call.tags) > 0
        THEN /\ ActionsSent = <<"CreateVolume", "CreateTags">>
             /\ Count(sent[2].params, <<"ResourceId", 1>>) = 1
             /\ Get(sent[2].params, <<"ResourceId", 1>>) = recv[1].body.doc.volumeId
             /\ ret.vol # <<>>
             /\ ret.vol[1].Id = recv[1].body.doc.volumeId
        ELSE ActionsSent = <<"CreateVolume">>

\* a volume was created and tagged with two tags
C5_Witness ==
    /\ pc = "done"
    /\ call.op = "CreateVolume"
    /\ ret.err.nil
    /\ Len(call.tags) = 2
    /\ Len(sent) = 2
    /\ ret.vol # <<>>
    /\ ret.vol[1].Id = "vol-2"

\* the response means the request failed: no answer, or a status outside 2xx
IsFailure(r) == r.kind = "failure" \/ ~IsSuccess(r.status)

\* C6: when the CreateVolume request succeeded and the CreateTags request
\* that follows fails, CreateVolume returns an error and no volume, and the
\* created volume is left as it is: no DeleteVolume request and no second
\* CreateTags request is sent.
C6_TagFailureLeavesVolume ==
    (call.op = "CreateVolume" /\ Len(recv) = 2 /\ IsFailure(recv[2])) =>
        /\ pc = "done"
        /\ ~ret.err.nil
        /\ ret.vol = <<>>
        /\ ActionsSent = <<"CreateVolume", "CreateTags">>

\* the service created vol-1 and then refused the tags
C6_Witness ==
    /\ call.op = "CreateVolume"
    /\ Len(recv) = 2
    /\ recv[1].status = 200
    /\ recv[1].body.doc.volumeId = "vol-1"
    /\ recv[2].kind = "http"
    /\ recv[2].status = 400
    /\ pc = "done"

\* C7: every CreateVolume request carries exactly one VolumeType: io1
\* together with Iops = piops when piops > 0 (and ssd), gp2 without Iops
\* when piops = 0 and ssd, standard without Iops when piops = 0 and not ssd.
C7_VolumeType ==
    \A i \in 1..Len(sent) :
        Get(sent[i].params, <<"Action">>) = "CreateVolume" =>
            LET p == sent[i].params
            IN  /\ call.op = "CreateVolume"
                /\ Count(p, <<"VolumeType">>) = 1
                /\ (call.piops > 0) =>
                       /\ call.ssd
                       /\ Get(p, <<"VolumeType">>) = "io1"
                       /\ Count(p, <<"Iops">>) = 1
                       /\ Atoi(Get(p, <<"Iops">>)) = call.piops
                /\ (call.piops = 0 /\ call.ssd) =>
                       /\ Get(p, <<"VolumeType">>) = "gp2"
                       /\ ~Has(p, <<"Iops">>)
                /\ (call.piops = 0 /\ ~call.ssd) =>
                       /\ Get(p, <<"VolumeType">>) = "standard"
                       /\ ~Has(p, <<"Iops">>)

\* a request for a general-purpose SSD volume is in flight
C7_Witness ==
    /\ pc = "wait"
    /\ call.op = "CreateVolume"
    /\ call.piops = 0
    /\ call.ssd
    /\ Get(sent[1].params, <<"VolumeType">>) = "gp2"

----------------------------------------------------------------------------
(* Properties of the lookups *)

\* the call got a response with status 200 whose body decodes
DecodedFirst ==
    /\ Len(recv) >= 1
    /\ recv[1].kind = "http"
    /\ recv[1].status = 200
    /\ recv[1].body.wf

\* C8: VolumeById and SnapshotById return the item, and no error, when the
\* decoded result set has exactly one item; they return an error and no
\* item when it has no item or two or more items.
C8_ExactlyOneResult ==
    /\ (call.op = "VolumeById" /\ DecodedFirst) =>
           LET items == recv[1].body.doc.volumeSet
           IN  /\ pc = "done"
               /\ IF Len(items) = 1
                  THEN /\ ret.err.nil
                       /\ ret.vol = <<UnmarshalVolume(items[1])>>
                  ELSE /\ ~ret.err.nil
                       /\ ret.vol = <<>>
    /\ (call.op = "SnapshotById" /\ DecodedFirst) =>
           LET items == recv[1].body.doc.snapshotSet
           IN  /\ pc = "done"
               /\ IF Len(items) = 1
                  THEN /\ ret.err.nil
                       /\ ret.snap = <<UnmarshalSnapshot(items[1])>>
                  ELSE /\ ~ret.err.nil
                       /\ ret.snap = <<>>

\* VolumeById was answered with two volumes
C8_Witness ==
    /\ call.op = "VolumeById"
    /\ DecodedFirst
    /\ Len(recv[1].body.doc.volumeSet) = 2
    /\ pc = "done"
    /\ ~ret.err.nil

\* C9: for a tag list of length n >= 1 the request of VolumesByTags carries
\* Filter.i.Name = "tag:" + key_i and Filter.i.Value = value_i for i = 1..n,
\* each once, and no other Filter parameter.
C9_OneFilterPerTag ==
    (call.op = "VolumesByTags" /\ Len(call.tags) >= 1) =>
        LET p == sent[1].params
            n == Len(call.tags)
        IN  /\ \A i \in 1..n :
                   /\ Count(p, <<"Filter", i, "Name">>) = 1
                   /\ Get(p, <<"Filter", i, "Name">>) = <<"tag:", call.tags[i].Key>>
                   /\ Count(p, <<"Filter", i, "Value">>) = 1
                   /\ Get(p, <<"Filter", i, "Value">>) = call.tags[i].Value
            /\ {k \in Keys(p) : k[1] = "Filter"} =
                   {<<"Filter", i, "Name">> : i \in 1..n}
                   \cup {<<"Filter", i, "Value">> : i \in 1..n}

\* a lookup by two different tags is in flight
C9_Witness ==
    /\ pc = "wait"
    /\ call.op = "VolumesByTags"
    /\ Len(call.tags) = 2
    /\ call.tags[1].Key # call.tags[2].Key

----------------------------------------------------------------------------
(* Properties of the error handling *)

\* C10: for every operation, a response with a status code outside 2xx ends
\* the call with an error whose message is the raw body of that response and
\* with no result decoded from a response; the body of such a response is
\* never passed to the decoder.
C10_ErrorBodyIsTheError ==
    \A i \in 1..Len(recv) :
        (recv[i].kind = "http" /\ ~IsSuccess(recv[i].status)) =>
            /\ i \notin decoded
            /\ i = Len(recv)
            /\ pc = "done"
            /\ ret.err = Error(recv[i].body.raw)
            /\ ret.vols = <<>>
            /\ ret.vol = <<>>
            /\ ret.snap = <<>>
            /\ ret.status = ""
            /\ ret.body = <<>>

\* a lookup got status 400 with a body that would decode to a volume
C10_Witness ==
    /\ call.op = "VolumeById"
    /\ Len(recv) = 1
    /\ recv[1].kind = "http"
    /\ recv[1].status = 400
    /\ Len(recv[1].body.doc.volumeSet) = 1
    /\ pc = "done"

----------------------------------------------------------------------------
(* Properties of the requests of the client *)

\* C11: every request handed to the transport carries the Version parameter
\* with the value 2014-05-01 and no other value, and went through the signer
\* exactly once, with the Version parameter already on it; no request is
\* handed to the transport unsigned.
C11_VersionedThenSigned ==
    \A i \in 1..Len(sent) :
        LET p == sent[i].params
        IN  /\ Has(p, <<"Version">>)
            /\ \A k \in 1..Len(p) : p[k][1] = <<"Version">> => p[k][2] = ProtocolVersion
            /\ sent[i].signed = 1
            /\ sent[i].seen = p

\* the second request of an operation, the tagging of a created volume, is
\* in flight
C11_Witness ==
    /\ pc = "wait"
    /\ call.op = "CreateVolume"
    /\ Len(sent) = 2
    /\ InFlight = "CreateTags"
    /\ sent[2].signed = 1

\* the operations of the EBS client
ClientOperations ==
    {"VolumesByTags", "VolumeById", "CreateVolume", "DeleteVolume", "AttachVolume",
     "DetachVolume", "CreateSnapshot", "SnapshotById", "DeleteSnapshot"}

\* C12: in one call of an operation of the EBS client every remote action is
\* requested at most once, and no request follows a transport failure or a
\* response with a status outside 2xx.
C12_NoRetry ==
    call.op \in ClientOperations =>
        /\ \A i, j \in 1..Len(sent) : ActionsSent[i] = ActionsSent[j] => i = j
        /\ \A i \in 1..Len(recv) : IsFailure(recv[i]) => Len(sent) = i /\ pc = "done"

\* DeleteVolume met a transport failure and has returned
C12_Witness ==
    /\ pc = "done"
    /\ call.op = "DeleteVolume"
    /\ Len(recv) = 1
    /\ recv[1].kind = "failure"
    /\ Len(sent) = 1
    /\ ~ret.err.nil

\* C20: an AttachVolume that returns without error has sent exactly two
\* requests, DescribeInstanceAttribute for the blockDeviceMapping of the
\* instance and then AttachVolume for the volume and the instance, and the
\* path it returns is the one Device parameter of its AttachVolume request.
C20_AttachReturnsSentDevice ==
    (pc = "done" /\ call.op = "AttachVolume" /\ ret.err.nil) =>
        /\ ActionsSent = <<"DescribeInstanceAttribute", "AttachVolume">>
        /\ Get(sent[1].params, <<"InstanceId">>) = call.instance
        /\ Get(sent[1].params, <<"Attribute">>) = "blockDeviceMapping"
        /\ Get(sent[2].params, <<"InstanceId">>) = call.instance
        /\ Get(sent[2].params, <<"VolumeId">>) = call.id
        /\ Count(sent[2].params, <<"Device">>) = 1
        /\ ret.device = Get(sent[2].params, <<"Device">>)

\* the mapping of the unit test: /dev/sdg was sent and returned
C20_Witness ==
    /\ pc = "done"
    /\ call.op = "AttachVolume"
    /\ ret.err.nil
    /\ ReturnedPaths = <<DevXvda, DevSdf>>
    /\ ret.device = DevSdg
    /\ Len(recv) = 2

----------------------------------------------------------------------------
(* Properties of the attach command *)

\* the actions of the requests of this invocation, in the order of issue
IssuedActions == [i \in 1..Len(issued) |-> Get(issued[i].params, <<"Action">>)]

IssuedOf(action) == {i \in 1..Len(issued) : IssuedActions[i] = action}

\* the requests of the operation AttachVolume
AttachIssued == IssuedOf("DescribeInstanceAttribute") \cup IssuedOf("AttachVolume")

Logged(msg) == \E i \in 1..Len(logged) : logged[i] = msg

\* the name lookup of this invocation returned one volume, in the zone asked for
Reusing ==
    /\ apc \notin {"idle", "Resolve"}
    /\ Len(vols) = 1
    /\ vols[1].AvailabilityZone = flags.az

\* C13: an attach invocation whose name lookup returned exactly one volume,
\* in the requested zone, issues no CreateVolume, no CreateSnapshot and no
\* DeleteVolume request, and every AttachVolume request it issues names the
\* id of that volume.
C13_ReuseSkipsCreation ==
    Reusing =>
        /\ IssuedOf("CreateVolume") = {}
        /\ IssuedOf("CreateSnapshot") = {}
        /\ IssuedOf("DeleteVolume") = {}
        /\ \A i \in IssuedOf("AttachVolume") :
               Get(issued[i].params, <<"VolumeId">>) = vols[1].Id

\* the volume found was attached and its path printed
C13_Witness ==
    /\ Reusing
    /\ apc = "Done"
    /\ IssuedActions = <<"DescribeVolumes", "DescribeInstanceAttribute", "AttachVolume">>
    /\ stdout = <<DevSdf>>

\* this invocation created a volume and started to poll it
Created == poller.volume.wait # "none"

\* C14: when the invocation created the volume, no request of AttachVolume
\* is issued and no path is printed unless the last VolumeById poll reported
\* the status "available"; an invocation that died of the timeout of that
\* wait has issued no request of AttachVolume and printed nothing.
C14_AttachAfterAvailable ==
    /\ (Created /\ (AttachIssued # {} \/ stdout # <<>> \/ apc \in {"Attach", "Done"})) =>
           poller.volume.last = VolumeAvailable
    /\ fatal = "Timed out waiting for volume to become available" =>
           /\ Created
           /\ AttachIssued = {}
           /\ stdout = <<>>
           /\ apc \in {"Exiting", "Fail"}

\* the volume was polled, was still being created, and the timer fired
C14_Witness ==
    /\ fatal = "Timed out waiting for volume to become available"
    /\ apc = "Fail"
    /\ Created
    /\ poller.volume.last = "creating"
    /\ IssuedOf("DescribeVolumes") # {}
    /\ IssuedOf("CreateTags") # {}

\* C15: when the name lookup returned more than one volume the invocation
\* has failed and the lookup is the only request it issued.
C15_AmbiguousNameIsFatal ==
    (apc # "Resolve" /\ Len(vols) > 1) =>
        /\ apc = "Fail"
        /\ fatal = "More than one volume exist with the name"
        /\ IssuedActions = <<"DescribeVolumes">>
        /\ stdout = <<>>

\* two volumes carry the name
C15_Witness ==
    /\ Len(vols) = 2
    /\ apc = "Fail"
    /\ run = 1

\* this invocation asked for a migration snapshot and started to poll it
Migrating == poller.snapshot.wait # "none"

\* C16: DeleteVolume is issued only in a migration, and in a migration
\* DeleteVolume and CreateVolume are issued only when the last SnapshotById
\* poll reported the status "completed"; an invocation that died of the
\* timeout of that wait has issued neither DeleteVolume nor CreateVolume nor
\* a request of AttachVolume.
C16_ReplaceAfterCompleted ==
    /\ IssuedOf("DeleteVolume") # {} => Migrating
    /\ (Migrating /\ (IssuedOf("DeleteVolume") # {} \/ IssuedOf("CreateVolume") # {})) =>
           poller.snapshot.last = SnapshotCompleted
    /\ fatal = "Timed out waiting for snapshot to complete" =>
           /\ Migrating
           /\ IssuedOf("DeleteVolume") = {}
           /\ IssuedOf("CreateVolume") = {}
           /\ AttachIssued = {}
           /\ apc \in {"Exiting", "Fail"}

\* a migration went through to the printed path
C16_Witness ==
    /\ Migrating
    /\ apc = "Done"
    /\ IssuedOf("DeleteVolume") # {}
    /\ IssuedOf("CreateVolume") # {}
    /\ IssuedOf("AttachVolume") # {}
    /\ poller.snapshot.last = SnapshotCompleted

\* C17 as stated: a DeleteVolume request is issued only after a
\* CreateVolume request, so that the replacement exists when the old volume
\* is deleted.
C17_ReplacementBeforeDelete ==
    \A i \in IssuedOf("DeleteVolume") :
        \E j \in IssuedOf("CreateVolume") : j < i

\* C17: in a migration the DeleteVolume request for the old volume is issued
\* before the CreateVolume request for its replacement: when the old volume
\* is deleted the replacement has not been asked for yet, what exists is
\* the migration snapshot, which a poll has reported as completed.
C17_DeleteBeforeReplacement ==
    \A i \in IssuedOf("DeleteVolume") :
        /\ \A j \in IssuedOf("CreateVolume") : i < j
        /\ Get(issued[i].params, <<"VolumeId">>) = vols[1].Id
        /\ \E k \in IssuedOf("DescribeSnapshots") : k < i
        /\ poller.snapshot.last = SnapshotCompleted

\* the old volume was deleted and the request for the replacement followed
C17_Witness ==
    /\ IssuedOf("DeleteVolume") # {}
    /\ IssuedOf("CreateVolume") # {}
    /\ remote.volumes[vols[1].Id].state = "deleted"
    /\ apc = "WaitVolume"

\* the deletion of the old volume failed
DeleteFailed == Logged("WARNING: Was not able to delete old volume")

\* C18: a failed DeleteVolume of the old volume does not end the
\* invocation: it goes on to CreateVolume, whose request carries the id of
\* the migration snapshot as its one SnapshotId, and an invocation that
\* failed after such a deletion failed at CreateVolume or later.
C18_DeleteFailureNotFatal ==
    DeleteFailed =>
        /\ apc \in {"Create", "WaitVolume", "Attach", "Done", "Exiting", "Fail"}
        /\ apc \in {"Exiting", "Fail"} =>
               \/ IssuedOf("CreateVolume") # {}
               \/ PiopsWithoutSsd(flags.piops, flags.ssd)
        /\ \A i \in IssuedOf("CreateVolume") :
               /\ Count(issued[i].params, <<"SnapshotId">>) = 1
               /\ Get(issued[i].params, <<"SnapshotId">>) = snapshot
               /\ snapshot # flags.snapshot
               /\ \E j \in IssuedOf("CreateSnapshot") : j < i

\* the old volume could not be deleted and the replacement was attached
C18_Witness ==
    /\ DeleteFailed
    /\ apc = "Done"
    /\ IssuedOf("AttachVolume") # {}
    /\ stdout # <<>>

\* the volume attachEbs resolved shows an active attachment to the instance
ShowsAttachment ==
    /\ apc \in {"Attach", "Done", "Fail"}
    /\ volume # <<>>
    /\ \E i \in 1..Len(volume[1].AttachmentSet) :
           /\ volume[1].AttachmentSet[i].InstanceId = flags.instance
           /\ volume[1].AttachmentSet[i].Status \in {"attaching", "attached"}

\* the invocation has ended, and not because a request met a transport
\* failure or a refusal of a service out of order
EndedUndisturbed ==
    /\ apc \in {"Done", "Fail"}
    /\ fatal \notin {TransportError.msg, "InternalError"}

\* C19: when the resolved volume shows an active attachment to the instance
\* the invocation issues no request of AttachVolume and prints the device of
\* that attachment; and an invocation that follows one that ended in Done,
\* and whose requests the service answers, ends in Done too, prints the path
\* that one printed and issues nothing but the lookup.
C19_IdempotentReinvocation ==
    /\ ShowsAttachment =>
           /\ AttachIssued = {}
           /\ apc # "Fail"
           /\ apc = "Done" => stdout = <<volume[1].AttachmentSet[1].Device>>
    /\ (history # <<>> /\ Last(history).exit = "Done" /\ EndedUndisturbed) =>
           /\ apc = "Done"
           /\ stdout = Last(history).stdout
           /\ IssuedActions = <<"DescribeVolumes">>

----------------------------------------------------------------------------
(* Properties of DetachVolume *)

\* C21: a DetachVolume that has returned has sent one request, of action
\* DetachVolume for its volume, and has read one response; when that
\* response has status 200 and a body that decodes, it returns the status
\* element of the body without error, "detaching" for "detaching".
C21_DetachReturnsReportedStatus ==
    (pc = "done" /\ call.op = "DetachVolume") =>
        /\ ActionsSent = <<"DetachVolume">>
        /\ Get(sent[1].params, <<"VolumeId">>) = call.id
        /\ Len(recv) = 1
        /\ (~IsFailure(recv[1]) /\ recv[1].status = 200 /\ recv[1].body.wf) =>
               /\ ret.err.nil
               /\ ret.status = recv[1].body.doc.status

\* the response of the unit test: the service reports detaching
C21_Witness ==
    /\ pc = "done"
    /\ call.op = "DetachVolume"
    /\ Len(recv) = 1
    /\ recv[1].kind = "http"
    /\ recv[1].status = 200
    /\ recv[1].body.doc.status = "detaching"
    /\ ret.err.nil
    /\ ret.status = "detaching"
    /\ Len(sent) = 1

----------------------------------------------------------------------------
(* Properties of the output of the attach command *)

\* the attachment the service holds for the volume attachEbs resolved
ServiceAttachment == remote.volumes[volume[1].Id].att

\* C22: standard output holds one path when the invocation is in Done and
\* nothing in any other state, Fail included; and a path that was written is
\* either the device of the attachment to the instance that the resolved
\* volume showed, with no request of AttachVolume, or the Device parameter of
\* an AttachVolume request that the service has carried out.
C22_OnePathOnSuccessOnly ==
    /\ apc = "Done" => Len(stdout) = 1
    /\ apc # "Done" => stdout = <<>>
    /\ stdout # <<>> =>
           /\ volume # <<>>
           /\ \/ /\ AttachIssued = {}
                 /\ InUse(volume[1])
                 /\ volume[1].AttachmentSet[1].InstanceId = flags.instance
                 /\ stdout[1] = volume[1].AttachmentSet[1].Device
              \/ /\ Cardinality(IssuedOf("AttachVolume")) = 1
                 /\ \A i \in IssuedOf("AttachVolume") :
                        stdout[1] = Get(issued[i].params, <<"Device">>)
                 /\ ServiceAttachment # <<>>
                 /\ ServiceAttachment[1].instanceId = flags.instance
                 /\ ServiceAttachment[1].device = stdout[1]

\* a created volume was attached and its path printed; an earlier
\* invocation ended in Fail with nothing printed
C22_Witness ==
    /\ apc = "Done"
    /\ Created
    /\ AttachIssued # {}
    /\ stdout = <<DevSdf>>
    /\ history # <<>>
    /\ history[1].exit = "Fail"
    /\ history[1].stdout = <<>>

----------------------------------------------------------------------------
(* Termination of the attach command *)

\* an invocation is under way
Running == apc \notin {"idle", "Done", "Fail"}

\* C23: an invocation that is under way ends, in Done or in Fail, whatever
\* the service does with the snapshot and the volume, as long as the remote
\* calls return and the timers of the selects fire.
C23_InvocationTerminates == Running ~> apc \in {"Done", "Fail"}

\* the volume was still creating at the last query when the timer ended the
\* invocation
C23_Witness ==
    /\ apc = "Fail"
    /\ fatal = "Timed out waiting for volume to become available"
    /\ poller.volume.last = "creating"
    /\ IssuedOf("DescribeVolumes") # {}

----------------------------------------------------------------------------
(* Properties of the goroutines that poll *)

\* the request is a status query by id: DescribeSnapshots for one snapshot
\* or DescribeVolumes for one volume, without filters
StatusQuery(req) ==
    LET p == req.params
    IN  \/ /\ Get(p, <<"Action">>) = "DescribeSnapshots"
           /\ Count(p, <<"SnapshotId", 1>>) = 1
           /\ Keys(p) = {<<"Action">>, <<"SnapshotId", 1>>, <<"Version">>}
        \/ /\ Get(p, <<"Action">>) = "DescribeVolumes"
           /\ Count(p, <<"VolumeId", 1>>) = 1
           /\ Keys(p) = {<<"Action">>, <<"VolumeId", 1>>, <<"Version">>}

\* C24: every request a polling goroutine has issued is a status query by
\* id, DescribeSnapshots for the migration snapshot from the one goroutine
\* and DescribeVolumes from the other, in the window between the timer of the
\* select and the exit of the process too.
C24_PollersOnlyQuery ==
    /\ \A req \in poller.snapshot.asked :
           /\ StatusQuery(req)
           /\ Get(req.params, <<"Action">>) = "DescribeSnapshots"
           /\ Get(req.params, <<"SnapshotId", 1>>) = snapshot
    /\ \A req \in poller.volume.asked :
           /\ StatusQuery(req)
           /\ Get(req.params, <<"Action">>) = "DescribeVolumes"

\* the timer of the snapshot wait has fired and the goroutine has polled
\* since: its query is the last request issued, after the timeout message
C24_Witness ==
    /\ apc = "Exiting"
    /\ fatal = "Timed out waiting for snapshot to complete"
    /\ poller.snapshot.state = "running"
    /\ poller.snapshot.late
    /\ poller.snapshot.asked # {}
    /\ IssuedActions = <<"DescribeVolumes", "CreateSnapshot", "DescribeSnapshots">>

----------------------------------------------------------------------------
(* Properties of what the attach command leaves behind *)

\* C25: an invocation issues no DeleteSnapshot, and a DeleteVolume it issues
\* belongs to a migration, names the volume the lookup by name returned, and
\* precedes every CreateVolume: it never names the volume the invocation
\* created.
C25_NoRollback ==
    /\ IssuedOf("DeleteSnapshot") = {}
    /\ \A i \in IssuedOf("DeleteVolume") :
           /\ Migrating
           /\ Len(vols) = 1
           /\ Get(issued[i].params, <<"VolumeId">>) = vols[1].Id
           /\ \A j \in IssuedOf("CreateVolume") : i < j
           /\ (Created /\ volume # <<>>) =>
                  Get(issued[i].params, <<"VolumeId">>) # volume[1].Id

\* a migration failed at the wait for the volume it created: the volume and
\* the migration snapshot are still there
C25_Witness ==
    /\ apc = "Fail"
    /\ Migrating
    /\ Created
    /\ fatal = "Timed out waiting for volume to become available"
    /\ IssuedOf("DeleteVolume") # {}
    /\ volume # <<>>
    /\ Exists(remote, volume[1].Id)
    /\ remote.snapshots[snapshot] = "completed"

----------------------------------------------------------------------------
(* Properties of the client as an object *)

\* what an operation returns, from its arguments c and the responses rs it
\* was given
ResultOf(c, rs) ==
    LET Plain(r) == IF Failed(r) THEN [NoRet EXCEPT !.err = FailureOf(r)] ELSE NoRet
    IN  CASE c.op = "VolumesByTags" -> VolumesByTagsReturn(rs[1])
          [] c.op = "VolumeById" -> VolumeByIdReturn(rs[1])
          [] c.op = "SnapshotById" -> SnapshotByIdReturn(rs[1])
          [] c.op = "CreateSnapshot" -> CreateSnapshotReturn(rs[1])
          [] c.op = "DeleteVolume" -> DeleteVolumeReturn(rs[1])
          [] c.op = "DeleteSnapshot" -> Plain(rs[1])
          [] c.op = "DetachVolume" ->
                IF Failed(rs[1])
                THEN Plain(rs[1])
                ELSE IF ~rs[1].body.wf
                     THEN [NoRet EXCEPT !.err = DecodeError]
                     ELSE [NoRet EXCEPT !.status = rs[1].body.doc.status]
          [] c.op = "CreateVolume" ->
                IF PiopsWithoutSsd(c.piops, c.ssd)
                THEN [NoRet EXCEPT
                         !.err = Error("Provisioned IOPS volumes are only available as SSD")]
                ELSE LET res == CreateVolumeDecoded(rs[1])
                     IN  IF ~res.err.nil \/ ~TagsWanted(c.tags)
                         THEN res
                         ELSE tagResourceReturn(res.vol, rs[2])
          [] c.op = "AttachVolume" ->
                LET res == getBlockDeviceMappingReturn(rs[1])
                IN  IF ~res.err.nil
                    THEN [NoRet EXCEPT !.err = res.err]
                    ELSE AttachVolumeReturn(AllocateDevice(res.mapping), rs[2])
          [] c.op = "SignedRequest" ->
                IF Failed(rs[1])
                THEN Plain(rs[1])
                ELSE [NoRet EXCEPT !.body = <<rs[1].body>>]

\* every request of the call in progress went to the endpoint of the
\* client, was signed by its signer and left by its transport
RequestsFollowConfiguration ==
    \A i \in 1..Len(sent) :
        /\ sent[i].endpoint = ebs.endpoint
        /\ sent[i].signer = ebs.signer
        /\ sent[i].via = ebs.client

\* C26: no step of an operation changes the transport, endpoint or signer
\* of the client; every request uses them; between two operations the client
\* holds nothing of the operation before; and what an operation returns is
\* the function ResultOf of its arguments and of the responses it received,
\* whichever operations the client carried out before.
C26_ClientKeepsNoState ==
    /\ [][ebs' = ebs]_vars
    /\ [](/\ ebs \in Clients
          /\ RequestsFollowConfiguration
          /\ pc = "idle" =>
                 <<call, sent, recv, decoded, local, ret>>
                     = <<NoCall, <<>>, <<>>, {}, NoLocal, NoRet>>
          /\ pc = "done" => ret = ResultOf(call, recv))

\* a client built with its own transport, endpoint and signer has returned
\* from its second operation in a row, a SignedRequest with the map of the
\* first
C26_Witness ==
    /\ ebs = NewEbsClient("testClient", "http://127.0.0.1:8080", "testSigner")
    /\ pc = "done"
    /\ call.op = "SignedRequest"
    /\ Count(values, <<"Version">>) = 2
    /\ sent[1].endpoint = "http://127.0.0.1:8080"
    /\ sent[1].signer = "testSigner"
    /\ sent[1].via = "testClient"
    /\ ret.err.nil
    /\ ret.body # <<>>

----------------------------------------------------------------------------
(* Properties of the status values *)

\* the statuses ebs.go has constants for
KnownVolumeStatuses == {"in-use", "creating", "available", "deleting", "deleted", "error"}
KnownSnapshotStatuses == {"completed", "pending", "error"}

\* the responses of status 200 to a status query by id that report the
\* status st for the one item
VolumeReporting(st) ==
    Http(200, XmlBody("DescribeVolumesResponse",
                      [EmptyDoc EXCEPT !.volumeSet =
                          <<[volumeId |-> "vol-1", availabilityZone |-> HomeZone,
                             status |-> st, attachmentSet |-> <<>>]>>]))

SnapshotReporting(st) ==
    Http(200, XmlBody("DescribeSnapshotsResponse",
                      [EmptyDoc EXCEPT !.snapshotSet =
                          <<[snapshotId |-> "snap-1", volumeId |-> "vol-1",
                             status |-> st, description |-> "migrate_zone"]>>]))

\* the goroutine k has polled since the select began and its last query
\* returned a status other than the awaited one
StillAwaiting(k, awaited) == poller[k].polls > 0 /\ poller[k].last # awaited

\* C27: a status without a constant decodes without error to the string
\* the service sent; and while the last status a polling goroutine received
\* is not the awaited one, unknown statuses included, the goroutine keeps
\* running, its channel stays open and the invocation has not failed other
\* than by the timer.
C27_UnknownStatusIsOpaque ==
    /\ \A st \in {UnknownVolumeStatus} \cup KnownVolumeStatuses :
           /\ VolumeByIdReturn(VolumeReporting(st)).err.nil
           /\ VolumeByIdReturn(VolumeReporting(st)).vol[1].Status = st
    /\ \A st \in {UnknownSnapshotStatus} \cup KnownSnapshotStatuses :
           /\ SnapshotByIdReturn(SnapshotReporting(st)).err.nil
           /\ SnapshotByIdReturn(SnapshotReporting(st)).snap[1].Status = st
    /\ UnknownVolumeStatus \notin KnownVolumeStatuses
    /\ UnknownSnapshotStatus \notin KnownSnapshotStatuses
    /\ StillAwaiting("snapshot", SnapshotCompleted) =>
           /\ poller.snapshot.state = "running"
           /\ poller.snapshot.wait = "open"
           /\ apc \in {"WaitSnapshot", "Exiting"}
           /\ apc = "WaitSnapshot" => fatal = ""
           /\ IssuedOf("DeleteVolume") = {}
    /\ StillAwaiting("volume", VolumeAvailable) =>
           /\ poller.volume.state = "running"
           /\ poller.volume.wait = "open"
           /\ apc \in {"WaitVolume", "Exiting"}
           /\ apc = "WaitVolume" => fatal = ""
           /\ AttachIssued = {}
           /\ volume # <<>>
           /\ volume[1].Status = poller.volume.last

\* the snapshot goroutine has polled twice at least and the service reports
\* a status without a constant for the snapshot
C27_Witness ==
    /\ apc = "WaitSnapshot"
    /\ poller.snapshot.polls >= 2
    /\ poller.snapshot.last = UnknownSnapshotStatus
    /\ poller.snapshot.state = "running"
    /\ remote.snapshots[snapshot] = UnknownSnapshotStatus

----------------------------------------------------------------------------
(* Properties of the allocator at the end of the alphabet *)

\* the entries of the returned mapping under /dev/sd
SdPaths == {ReturnedPaths[k] : k \in {j \in 1..Len(ReturnedPaths) :
                                         HasPrefix(ReturnedPaths[j], DevSdPrefix)}}

\* "/dev/sd{": the bytes of /dev/sdz with the last one, 'z', plus one
DevSdAfterZ == DevSdPrefix \o <<123>>

\* C28: the path sent is /dev/sdf or an entry of the mapping under /dev/sd
\* with its last byte plus one and every other byte as it was, of the same
\* length; when the greatest such entry is /dev/sdz the path sent is
\* /dev/sd followed by the byte 'z' + 1, which is no letter.
C28_NoCarry ==
    AttachSent =>
        /\ \/ SentDevice = DevSdf
           \/ \E p \in SdPaths :
                  /\ Len(SentDevice) = Len(p)
                  /\ \A i \in 1..(Len(p) - 1) : SentDevice[i] = p[i]
                  /\ SentDevice[Len(p)] = p[Len(p)] + 1
        /\ (DevSdz \in SdPaths /\ \A p \in SdPaths : StrGE(DevSdz, p)) =>
               /\ SentDevice = DevSdAfterZ
               /\ SentDevice[8] \notin (65..90) \cup (97..122)

\* /dev/sdz is the greatest of several entries and /dev/sd{ was sent
C28_Witness ==
    /\ AttachSent
    /\ DevSdz \in SdPaths
    /\ DevSdg1 \in SdPaths
    /\ ReturnedPaths[1] = DevSdz
    /\ SentDevice = DevSdAfterZ

----------------------------------------------------------------------------
(* Properties of the requests of one invocation *)

\* the actions that change the service, and the queries attachEbs itself
\* makes
MutatingActions == {"CreateSnapshot", "DeleteVolume", "CreateVolume", "CreateTags",
                    "AttachVolume"}

\* the requests issued that are not status queries of a goroutine
OwnRequests == {i \in 1..Len(issued) : ~IsPoll(issued[i])}

\* C29: of each of CreateSnapshot, DeleteVolume, CreateVolume, CreateTags
\* and AttachVolume an invocation issues one request at most, and so it does
\* of every action but the status queries by id: requests of the same action
\* are status queries of a polling goroutine.
C29_MutationsAtMostOnce ==
    /\ \A a \in MutatingActions : Cardinality(IssuedOf(a)) <= 1
    /\ \A i, j \in OwnRequests : IssuedActions[i] = IssuedActions[j] => i = j
    /\ \A i \in 1..Len(issued) :
           IsPoll(issued[i]) => \E k \in {"snapshot", "volume"} : issued[i] \in poller[k].asked

\* a migration has issued each mutating action before the attachment once,
\* and the volume goroutine has sent its status query three times
C29_Witness ==
    /\ apc = "WaitVolume"
    /\ \A a \in MutatingActions \ {"AttachVolume"} : Cardinality(IssuedOf(a)) = 1
    /\ poller.snapshot.last = SnapshotCompleted
    /\ poller.volume.polls = 3
    /\ poller.volume.last = "creating"
    /\ Cardinality(IssuedOf("DescribeVolumes")) = 2

\* ---------------------------------------------------------------------------
\* C30  a failed status query of a polling goroutine
\* ---------------------------------------------------------------------------

\* the goroutine of the wait ended on a failed status query
PollFailed(k) == poller[k].state \in {"failed", "panicked"}

\* the errors attachEbs logs for a wait: the failed query and the timeout
WaitErrors(k) ==
    IF k = "snapshot"
    THEN {"Could not update snapshot status",
          "Timed out waiting for snapshot to complete"}
    ELSE {"Could not update volume status",
          "Timed out waiting for volume to become available"}

\* the mutating requests that come after a wait
AfterWait(k) ==
    IF k = "snapshot" THEN {"DeleteVolume", "CreateVolume", "AttachVolume"}
    ELSE {"AttachVolume"}

\* nothing follows the failed query: no mutating request of the later steps,
\* no line of the success branch, no path on standard output
NothingFollows(k) ==
    /\ \A a \in AfterWait(k) : IssuedOf(a) = {}
    /\ stdout = <<>>
    /\ apc \notin {"Attach", "Done"}
    /\ k = "volume" => \A i \in 1..Len(logged) : logged[i] # "Created volume"

\* the failed query ends the invocation as the claim describes it
PollFailureIsFatal(k) ==
    PollFailed(k) =>
        /\ apc = "Fail"
        /\ fatal \in WaitErrors(k)
        /\ poller[k].wait # "closed"
        /\ NothingFollows(k)

\* C30: a status query that fails inside a polling loop ends the invocation in
\* Fail with a logged error, the completion signal of the goroutine is not
\* given, and no DeleteVolume, CreateVolume or AttachVolume follows
C30_PollFailureIsFatal == \A k \in {"snapshot", "volume"} : PollFailureIsFatal(k)

----------------------------------------------------------------------------
(* Properties of the gateway's parameter set *)

\* C37: SignedRequest leaves the parameter set of its caller unchanged (the
\* caller's map carries no Version after the call), and every request it
\* sends carries exactly one Version parameter, also when the same
\* parameter set is sent a second time
C37_SignedRequestLeavesValues ==
    (call.op = "SignedRequest" /\ pc \in {"wait", "done"}) =>
        /\ Count(values, <<"Version">>) = 0
        /\ Count(sent[1].params, <<"Version">>) = 1

----------------------------------------------------------------------------
(* Properties of the allocator on single-letter paths *)

\* every entry of the returned mapping under /dev/sd is /dev/sd and one letter
SingleLetterPaths ==
    \A p \in SdPaths : Len(p) = Len(DevSdPrefix) + 1 /\ p[Len(p)] \in 97..122

\* the greatest of the entries under /dev/sd
GreatestSdPath == CHOOSE g \in SdPaths : \A p \in SdPaths : StrGE(g, p)

\* "/dev/sdi"
DevSdi == DevSdPrefix \o <<105>>

\* C36: when the entries of the mapping under /dev/sd are single-letter
\* paths, the path sent is the greatest of them with its letter plus one if
\* that entry is >= /dev/sdf, and /dev/sdf otherwise; a free path below the
\* greatest entry is not used (the entry /dev/sdh alone gives /dev/sdi)
C36_SuccessorOfGreatest ==
    (AttachSent /\ SingleLetterPaths) =>
        /\ SentDevice =
               IF SdPaths # {} /\ StrGE(GreatestSdPath, DevSdf)
               THEN ShiftLastByte(GreatestSdPath)
               ELSE DevSdf
        /\ SdPaths = {DevSdh} => SentDevice = DevSdi
        /\ \A p \in SdPaths : StrGE(p, DevSdf) => ~StrGE(p, SentDevice)

\* the mapping holds /dev/sdh and an entry outside /dev/sd, /dev/sdf and
\* /dev/sdg are free, and /dev/sdi was sent
C36_Witness ==
    /\ AttachSent
    /\ SingleLetterPaths
    /\ ReturnedPaths = <<DevXvda, DevSdh>>
    /\ SentDevice = DevSdi

----------------------------------------------------------------------------
(* Properties of AttachVolume when its mapping query fails *)

\* the response to the block-device-mapping query of this AttachVolume is a
\* transport failure, has a status other than 200, or a body that does not
\* decode
MappingQueryFailed ==
    /\ call.op = "AttachVolume"
    /\ Len(recv) >= 1
    /\ Failed(recv[1]) \/ ~recv[1].body.wf

\* C38: when the block-device-mapping query of AttachVolume fails (transport
\* error, status other than success, body that does not decode), AttachVolume
\* returns that error and an empty device path, and has sent nothing but the
\* query
C38_MappingFailureStopsAttach ==
    MappingQueryFailed =>
        /\ pc = "done"
        /\ ret.err = IF Failed(recv[1]) THEN FailureOf(recv[1]) ELSE DecodeError
        /\ ~ret.err.nil
        /\ ret.device = EmptyStr
        /\ Len(sent) = 1
        /\ RequestsOf("AttachVolume") = {}

\* a mapping query was answered with status 200 and a body that does not
\* decode, and AttachVolume has returned
C38_Witness ==
    /\ MappingQueryFailed
    /\ ~Failed(recv[1])
    /\ pc = "done"
    /\ ret.err = DecodeError
    /\ ret.device = EmptyStr

----------------------------------------------------------------------------
(* Properties of the Name tag across invocations *)

\* the volumes of the service that carry the Name tag of the flags
NamedVolumes == {id \in VolumeIds : Exists(remote, id) /\ remote.volumes[id].name = flags.name}

\* C33: after an invocation that ended in Done at most one volume of the
\* service carries the requested Name tag, and the invocation that follows
\* does not die of more than one volume of the name, also when the old
\* volume of a migration could not be deleted
C33_OneVolumeOfTheName ==
    /\ apc = "Done" => Cardinality(NamedVolumes) <= 1
    /\ (history # <<>> /\ Last(history).exit = "Done") =>
           fatal # "More than one volume exist with the name"

----------------------------------------------------------------------------
(* Properties of a migration snapshot that ends in error *)

\* the goroutine of the migration snapshot was last told the status "error"
SnapshotInError == Migrating /\ poller.snapshot.last = "error"

\* C34: when the migration snapshot has the status "error" the goroutine
\* that polls it does not return and wait stays open; the invocation waits
\* until the timer of the select fires and ends with its message (unless a
\* later status query itself fails), the success branch is not taken, and
\* the old volume is not deleted
C34_SnapshotErrorWaitsForTimeout ==
    SnapshotInError =>
        /\ poller.snapshot.wait = "open"
        /\ poller.snapshot.state # "returned"
        /\ apc \in {"WaitSnapshot", "Exiting", "Fail"}
        /\ apc = "WaitSnapshot" => poller.snapshot.state = "running" /\ fatal = ""
        /\ (apc \in {"Exiting", "Fail"} /\ ~PollFailed("snapshot")) =>
               fatal = "Timed out waiting for snapshot to complete"
        /\ ~Logged("Created snapshot")
        /\ IssuedOf("DeleteVolume") = {}
        /\ Exists(remote, vols[1].Id)

\* the snapshot went to "error", the goroutine polled it until the timer
\* fired, and the invocation ended with the old volume in place
C34_Witness ==
    /\ SnapshotInError
    /\ apc = "Fail"
    /\ fatal = "Timed out waiting for snapshot to complete"
    /\ poller.snapshot.state = "exited"
    /\ poller.snapshot.late
    /\ remote.snapshots[snapshot] = "error"
    /\ Exists(remote, vols[1].Id)

----------------------------------------------------------------------------
(* Properties of the already-attached check *)

\* the invocation went through the check of the resolved volume: it printed
\* a path, or it died in the check or in AttachVolume
Checked ==
    /\ volume # <<>>
    /\ \/ apc = "Done"
       \/ apc = "Fail" /\ fatal \in {"Could not attach volume", "panic: index out of range"}

\* the service reported the resolved volume with the status "in-use"
ReportedInUse == volume[1].Status = "in-use"

\* the client's AttachVolume was called for the resolved volume and the
\* instance of the flags: its mapping query went out for the instance, and
\* its AttachVolume request, if it got that far, names both
AttachCalled ==
    /\ Cardinality(IssuedOf("DescribeInstanceAttribute")) = 1
    /\ \A i \in IssuedOf("DescribeInstanceAttribute") :
           Get(issued[i].params, <<"InstanceId">>) = flags.instance
    /\ \A i \in IssuedOf("AttachVolume") :
           /\ Get(issued[i].params, <<"InstanceId">>) = flags.instance
           /\ Get(issued[i].params, <<"VolumeId">>) = volume[1].Id

\* C35: the check reads only the first attachment record and only when the
\* status of the volume is "in-use": when that record names the instance
\* its device is printed and AttachVolume is not called; when it names
\* another instance, or the status is not "in-use", AttachVolume is called
\* for the instance whatever the other records say; when the status is
\* "in-use" and the attachment list is empty the invocation crashes and
\* AttachVolume is not called
C35_FirstRecordOnly ==
    Checked =>
        LET set == volume[1].AttachmentSet
        IN  /\ (ReportedInUse /\ set # <<>> /\ set[1].InstanceId = flags.instance) =>
                   /\ AttachIssued = {}
                   /\ apc = "Done"
                   /\ stdout = <<set[1].Device>>
            /\ (ReportedInUse /\ set # <<>> /\ set[1].InstanceId # flags.instance) =>
                   AttachCalled
            /\ ~ReportedInUse => AttachCalled
            /\ (ReportedInUse /\ set = <<>>) =>
                   /\ apc = "Fail"
                   /\ fatal = "panic: index out of range"
                   /\ AttachIssued = {}
                   /\ stdout = <<>>

\* the volume is in use, its first record names another instance and its
\* second the instance of the flags, and AttachVolume was called
C35_Witness ==
    /\ Checked
    /\ ReportedInUse
    /\ Len(volume[1].AttachmentSet) = 2
    /\ volume[1].AttachmentSet[1].InstanceId = OtherInstance
    /\ volume[1].AttachmentSet[2].InstanceId = flags.instance
    /\ AttachCalled
    /\ stdout = <<>>

----------------------------------------------------------------------------
(* Properties of the detach command *)

\* the lookup of this invocation of detachEbs has returned
LookedUp == apc \in {"Detach", "Done", "Fail"}

\* C39: detachEbs issues DetachVolume only when its lookup by name returned
\* without error and with exactly one volume, and then for that volume;
\* with no volume or several it dies without a request of DetachVolume; an
\* invocation issues the lookup, then at most one DetachVolume, and nothing
\* else
C39_DetachOnlyTheOne ==
    /\ Cardinality(IssuedOf("DetachVolume")) <= 1
    /\ \A i \in 1..Len(issued) :
           IssuedActions[i] = (IF i = 1 THEN "DescribeVolumes" ELSE "DetachVolume")
    /\ \A i \in IssuedOf("DetachVolume") :
           /\ Len(vols) = 1
           /\ Get(issued[i].params, <<"VolumeId">>) = vols[1].Id
    /\ (LookedUp /\ Len(vols) # 1) =>
           /\ apc = "Fail"
           /\ fatal \in {"Not able to find the volume by name",
                         "Expected exactly one volume by the name"}
           /\ IssuedOf("DetachVolume") = {}
           /\ logged = <<>>
    /\ apc = "Done" => Cardinality(IssuedOf("DetachVolume")) = 1

\* two volumes carry the name: the lookup returned both and detachEbs died
\* of it without a request of DetachVolume
C39_Witness ==
    /\ apc = "Fail"
    /\ Len(vols) = 2
    /\ fatal = "Expected exactly one volume by the name"
    /\ IssuedActions = <<"DescribeVolumes">>

----------------------------------------------------------------------------
(* Properties of the variable shared with the goroutine *)

\* C32: attachEbs reads the variable volume, which the goroutine of the wait
\* assigns with every VolumeById result, only after it has received from
\* wait: it never reads it while the goroutine can still assign to it, on
\* the timeout branch either, and it goes on to the attachment of a created
\* volume only with wait closed and the goroutine returned
C32_VolumeReadAfterSignal ==
    /\ ~poller.volume.raced
    /\ (Created /\ apc \in {"Attach", "Done"}) =>
           /\ poller.volume.wait = "closed"
           /\ poller.volume.state = "returned"

----------------------------------------------------------------------------
(* Properties of AttachVolume calls that run side by side *)

\* the caller has sent its AttachVolume request
SentAttach(c) == Len(callers[c].sent) = 2

\* C31: two AttachVolume calls for different volumes and the same instance,
\* however their steps interleave, do not send AttachVolume requests with
\* the same Device path
C31_DistinctDevices ==
    \A a \in Callers, b \in Callers :
        (a # b /\ SentAttach(a) /\ SentAttach(b)) =>
            /\ Get(callers[a].sent[2].params, <<"VolumeId">>)
                   # Get(callers[b].sent[2].params, <<"VolumeId">>)
            /\ Get(callers[a].sent[2].params, <<"Device">>)
                   # Get(callers[b].sent[2].params, <<"Device">>)

====
